---- MODULE Spec2Model ----
(***************************************************************************)
(* Model of the trading engine's decision core:                            *)
(*   - grid_trading.rs : the ladder-order state machine of one strategy    *)
(*   - risk_engine.rs  : the per-user risk gate and its daily-loss cache   *)
(*   - main.rs         : the execute_buy / execute_sell request handlers   *)
(*                                                                         *)
(* f64 quantities are modelled in fixed point: every value is an integer   *)
(* number of representable quanta, and an operation whose exact result is  *)
(* not representable rounds to the nearest quantum (ties to even), as      *)
(* IEEE-754 arithmetic does.  Percentages are integers (1 = 1%).           *)
(* Uuid::new_v4() is modelled by the counter next_id.  The wall-clock      *)
(* filled_at stamp of an order is not modelled: no code reads it.          *)
(***************************************************************************)
EXTENDS Integers, Sequences, FiniteSets, TLC

\* ------------------------------------------------------------------ bounds
MaxTrades == 3         \* ticks stop once this many orders are completed
MaxLoneTrades == 5     \* the same, for a strategy that only receives ticks
MaxOptimize == 2       \* optimizations of a strategy that only receives those and ticks
MaxTasks == 2          \* risk-engine calls in flight at once
MaxBundled == 3        \* transactions a bundle may grow to
usize_max == 65535     \* the largest usize, of a word narrowed to 16 bits
MaxBalanceCalls == 2    \* get_solana_balance calls explored per run
MaxAdjust == 1         \* number of whale / volatility adjustments explored
MaxDay == 1            \* the clock runs over the days 0..MaxDay
MaxRecords == 3        \* record_trade_result calls explored per run
MaxPositions == 2      \* rows the positions table may grow to
MaxLoneSells == 2      \* the same, for a table that only receives sells
MaxSells == 1          \* successful sells explored per run
MaxTransactions == 3   \* rows the transactions table may grow to
MaxInflight == 2       \* buy requests in flight at once

\* --------------------------------------------------------------- helpers
Abs(x) == IF x < 0 THEN -x ELSE x

Min(a, b) == IF a <= b THEN a ELSE b

Max(a, b) == IF a >= b THEN a ELSE b

\* f64 division a / b for b > 0 : nearest representable value, ties to even
RoundDiv(a, b) ==
    LET q == a \div b
        r == a - q * b
    IN  IF 2 * r > b THEN q + 1
        ELSE IF 2 * r < b THEN q
        ELSE IF q % 2 = 0 THEN q ELSE q + 1

None == << >>

Some(v) == << v >>

\* ------------------------------------------------------------------ state
VARIABLES
    strategy,        \* the GridStrategy the grid functions operate on
    create_result,   \* result of the last create_grid_strategy call
    new_orders,      \* Vec<GridOrder> the last step returned, if it was a tick
    actions,         \* Vec<String> the last step returned, if it was an adjustment
    next_id,         \* source of fresh order ids (Uuid::new_v4)
    adjustments,     \* number of whale / volatility adjustments made
    tick_from,       \* history: status before the tick of the last step, or ""
    risk_profiles,   \* DB table risk_profiles : user_id -> Option<RiskProfile>
    positions,       \* DB table positions : rows in insertion order
    daily_stats,     \* RiskState.daily_stats : user_id -> Option<DailyStats>
    global_blacklist,\* RiskState.global_blacklist
    dev_blacklist,   \* RiskState.dev_blacklist
    today,           \* the calendar day of Utc::now()
    call,            \* the risk-engine call of the last step: arguments, result
    records,         \* number of record_trade_result calls made
    recorded_today,  \* history: losses passed to record_trade_result today
    written_on,      \* history: day on which total_loss_usd was last written
    db_users,        \* DB table users
    transactions,    \* DB table transactions : rows in insertion order
    pending_buys,    \* execute_buy calls suspended after their risk check
    response,        \* the last HTTP response of execute_buy / execute_sell
    sells_ok,        \* history: number of sells that executed their swap
    whale_trade,     \* the WhaleTrade of the last detect_whale_activity call
    recent_trades,   \* the trade history that call was given
    avg_volume_24h,  \* the average volume that call was given
    activity,        \* Option<WhaleActivity> : what that call returned
    analysis,        \* Option<WhaleImpactAnalysis> : the recommendation for it
    stats_lock,      \* the task holding the daily_stats write lock, or 0
    tasks,           \* the risk-engine calls in flight and where each one stands
    balance_call,    \* the get_solana_balance call: where it stands, what it tried
    bundle,          \* the BundledTransaction, NoBundle before create_bundle
    bundle_call      \* the last bundler call and what it returned

gridVars == << strategy, create_result, new_orders, actions, next_id, adjustments,
              tick_from >>

riskVars == << risk_profiles, positions, daily_stats, global_blacklist,
               dev_blacklist, today,
               call, records, recorded_today, written_on >>

tradeVars == << db_users, transactions, pending_buys, response, sells_ok >>

whaleVars == << whale_trade, recent_trades, avg_volume_24h, activity, analysis >>

lockVars == << stats_lock, tasks >>

balanceVars == << balance_call >>

bundleVars == << bundle, bundle_call >>

auxVars == << whaleVars, lockVars, balanceVars, bundleVars >>

\* what the whale, the lock and the balance steps leave alone
otherThanWhale == << gridVars, riskVars, tradeVars, lockVars, balanceVars, bundleVars >>

otherThanLock == << gridVars, tradeVars, whaleVars, balanceVars, bundleVars >>

otherThanBalance == << gridVars, riskVars, tradeVars, whaleVars, lockVars, bundleVars >>

otherThanBundle == << gridVars, riskVars, tradeVars, whaleVars, lockVars, balanceVars >>

vars == << gridVars, riskVars, tradeVars, auxVars >>

\* ------------------------------------------------------- grid_trading.rs
GridOrder(id, type, price, amount) ==
    [ order_id     |-> id,
      order_type   |-> type,
      price        |-> price,
      amount       |-> amount,
      status       |-> "Pending",
      filled_price |-> None,
      profit       |-> None ]

NoStrategy ==
    [ lower_price       |-> 0,
      upper_price       |-> 0,
      grid_count        |-> 0,
      grid_spacing      |-> 0,
      investment_amount |-> 0,
      status            |-> "None",
      last_price        |-> 0,
      total_profit      |-> 0,
      total_trades      |-> 0,
      active_orders     |-> << >>,
      completed_orders  |-> << >> ]

\* request inputs: prices in quanta, grid counts (1 is invalid)
Prices == { 0, 100, 200 }

GridCounts == { 1, 3, 4 }

Requests ==
    [ lower_price       : Prices,
      upper_price       : Prices,
      grid_count        : GridCounts,
      investment_amount : { 0, 12 } ]

\* the validation without the investment test
create_validation_no_investment(request) ==
    IF request.lower_price >= request.upper_price
    THEN "Lower price must be less than upper price"
    ELSE IF request.grid_count < 2
    THEN "Grid count must be at least 2"
    ELSE "Ok"

create_validation(request) ==
    IF request.lower_price >= request.upper_price
    THEN "Lower price must be less than upper price"
    ELSE IF request.grid_count < 2
    THEN "Grid count must be at least 2"
    ELSE IF request.investment_amount <= 0
    THEN "Investment amount must be positive"
    ELSE "Ok"

\* the spacing taken over grid_count intervals instead of grid_count - 1
create_spacing_by_count(request) ==
    RoundDiv(request.upper_price - request.lower_price, request.grid_count)

create_spacing(request) ==
    RoundDiv(request.upper_price - request.lower_price, request.grid_count - 1)

create_grid_strategy(request, id0) ==
    LET grid_spacing == create_spacing(request)
        amount_per_level == RoundDiv(request.investment_amount, request.grid_count)
    IN  [ lower_price       |-> request.lower_price,
          upper_price       |-> request.upper_price,
          grid_count        |-> request.grid_count,
          grid_spacing      |-> grid_spacing,
          investment_amount |-> request.investment_amount,
          status            |-> "Active",
          last_price        |-> RoundDiv(request.lower_price + request.upper_price, 2),
          total_profit      |-> 0,
          total_trades      |-> 0,
          active_orders     |->
              [ i \in 1..request.grid_count |->
                  GridOrder(id0 + i - 1, "Buy",
                            request.lower_price + grid_spacing * (i - 1),
                            amount_per_level) ],
          completed_orders  |-> << >> ]

\* the fill test without the status match
Fillable_any_status(order, type, p) ==
    /\ order.order_type = type
    /\ IF type = "Buy" THEN p <= order.price ELSE p >= order.price

\* the test of the two scans (lines 190-198 and 229-237)
Fillable(order, type, p) ==
    /\ order.order_type = type
    /\ order.status \in { "Pending", "Active" }
    /\ IF type = "Buy" THEN p <= order.price ELSE p >= order.price

orders_to_fill(orders, type, p) ==
    SelectSeq([ i \in 1..Len(orders) |-> i ],
              LAMBDA i : Fillable(orders[i], type, p))

RemoveAt(seq, idx) == SubSeq(seq, 1, idx - 1) \o SubSeq(seq, idx + 1, Len(seq))

\* the buy loop body with every Sell placed at the upper price
fill_buy_at_upper(st, idx, p) ==
    LET s == st.s
        order == [ s.active_orders[idx] EXCEPT !.status = "Filled",
                                               !.filled_price = Some(p) ]
        rest == RemoveAt(s.active_orders, idx)
        sell_order == GridOrder(st.next_id, "Sell", s.upper_price, order.amount)
    IN  [ s |-> [ s EXCEPT
                    !.active_orders = Append(rest, sell_order),
                    !.completed_orders = Append(s.completed_orders, order),
                    !.total_trades = s.total_trades + 1 ],
          new_orders |-> Append(st.new_orders, sell_order),
          next_id |-> st.next_id + 1 ]

\* one iteration of the loop that fills buy orders (lines 201-226)
fill_buy(st, idx, p) ==
    LET s == st.s
        order == [ s.active_orders[idx] EXCEPT !.status = "Filled",
                                               !.filled_price = Some(p) ]
        rest == RemoveAt(s.active_orders, idx)
        sell_price == order.price + s.grid_spacing
        spawn == sell_price <= s.upper_price
        sell_order == GridOrder(st.next_id, "Sell", sell_price, order.amount)
    IN  [ s |-> [ s EXCEPT
                    !.active_orders = IF spawn THEN Append(rest, sell_order) ELSE rest,
                    !.completed_orders = Append(s.completed_orders, order),
                    !.total_trades = s.total_trades + 1 ],
          new_orders |-> IF spawn THEN Append(st.new_orders, sell_order)
                                  ELSE st.new_orders,
          next_id |-> IF spawn THEN st.next_id + 1 ELSE st.next_id ]

\* the first completed Buy with a lower price: Iterator::find (lines 247-248)
find_buy(completed, price) ==
    LET hits == SelectSeq(completed,
                          LAMBDA o : o.order_type = "Buy" /\ o.price < price)
    IN  IF hits = << >> THEN None ELSE Some(Head(hits))

\* (sell - buy) / buy * 100 ; division by a zero buy price yields +infinity
profit_percent(sell, buy) ==
    IF buy = 0 THEN [ inf |-> TRUE, pct |-> 0 ]
    ELSE [ inf |-> FALSE, pct |-> RoundDiv((sell - buy) * 100, buy) ]

\* the sell loop body without the trade counter
fill_sell_uncounted(st, idx, p) ==
    LET s == st.s
        order0 == [ s.active_orders[idx] EXCEPT !.status = "Filled",
                                                !.filled_price = Some(p) ]
        rest == RemoveAt(s.active_orders, idx)
        found == find_buy(s.completed_orders, order0.price)
        order == IF found = None THEN order0
                 ELSE [ order0 EXCEPT
                          !.profit = Some(profit_percent(order0.price, found[1].price)) ]
        profit_usd == IF found = None THEN 0
                      ELSE order0.amount * (order0.price - found[1].price)
        buy_price == order.price - s.grid_spacing
        spawn == buy_price >= s.lower_price
        buy_order == GridOrder(st.next_id, "Buy", buy_price, order.amount)
    IN  [ s |-> [ s EXCEPT
                    !.total_profit = s.total_profit + profit_usd,
                    !.active_orders = IF spawn THEN Append(rest, buy_order) ELSE rest,
                    !.completed_orders = Append(s.completed_orders, order) ],
          new_orders |-> IF spawn THEN Append(st.new_orders, buy_order)
                                  ELSE st.new_orders,
          next_id |-> IF spawn THEN st.next_id + 1 ELSE st.next_id ]

\* one iteration of the loop that fills sell orders (lines 240-274)
fill_sell(st, idx, p) ==
    LET s == st.s
        order0 == [ s.active_orders[idx] EXCEPT !.status = "Filled",
                                                !.filled_price = Some(p) ]
        rest == RemoveAt(s.active_orders, idx)
        found == find_buy(s.completed_orders, order0.price)
        order == IF found = None THEN order0
                 ELSE [ order0 EXCEPT
                          !.profit = Some(profit_percent(order0.price, found[1].price)) ]
        profit_usd == IF found = None THEN 0
                      ELSE order0.amount * (order0.price - found[1].price)
        buy_price == order.price - s.grid_spacing
        spawn == buy_price >= s.lower_price
        buy_order == GridOrder(st.next_id, "Buy", buy_price, order.amount)
    IN  [ s |-> [ s EXCEPT
                    !.total_profit = s.total_profit + profit_usd,
                    !.active_orders = IF spawn THEN Append(rest, buy_order) ELSE rest,
                    !.completed_orders = Append(s.completed_orders, order),
                    !.total_trades = s.total_trades + 1 ],
          new_orders |-> IF spawn THEN Append(st.new_orders, buy_order)
                                  ELSE st.new_orders,
          next_id |-> IF spawn THEN st.next_id + 1 ELSE st.next_id ]

\* `for &idx in idxs.iter().rev()` : the indices are visited from last to first
RECURSIVE fill_all(_, _, _, _, _)
fill_all(st, type, idxs, k, p) ==
    IF k = 0 THEN st
    ELSE fill_all(IF type = "Buy" THEN fill_buy(st, idxs[k], p)
                                  ELSE fill_sell(st, idxs[k], p),
                  type, idxs, k - 1, p)

\* the range test without its upper limit
in_range_no_upper(s, p) == ~ (p < s.lower_price)

in_range(s, p) == ~ (p < s.lower_price \/ p > s.upper_price)

\* the tick without the reactivation of a Paused strategy (lines 185-187)
update_grid_stays_paused(s0, current_price, id0) ==
    LET s1 == [ s0 EXCEPT !.last_price = current_price ]
    IN  IF ~ in_range(s1, current_price)
        THEN [ s |-> IF s1.status = "Active" THEN [ s1 EXCEPT !.status = "Paused" ]
                                             ELSE s1,
               new_orders |-> << >>,
               next_id |-> id0 ]
        ELSE LET buys == orders_to_fill(s1.active_orders, "Buy", current_price)
                 st3 == fill_all([ s |-> s1, new_orders |-> << >>, next_id |-> id0 ],
                                 "Buy", buys, Len(buys), current_price)
                 sells == orders_to_fill(st3.s.active_orders, "Sell", current_price)
             IN  fill_all(st3, "Sell", sells, Len(sells), current_price)

update_grid_with_price(s0, current_price, id0) ==
    LET s1 == [ s0 EXCEPT !.last_price = current_price ]
    IN  IF ~ in_range(s1, current_price)
        THEN [ s |-> IF s1.status = "Active" THEN [ s1 EXCEPT !.status = "Paused" ]
                                             ELSE s1,
               new_orders |-> << >>,
               next_id |-> id0 ]
        ELSE LET s2 == IF s1.status = "Paused" THEN [ s1 EXCEPT !.status = "Active" ]
                                               ELSE s1
                 buys == orders_to_fill(s2.active_orders, "Buy", current_price)
                 st3 == fill_all([ s |-> s2, new_orders |-> << >>, next_id |-> id0 ],
                                 "Buy", buys, Len(buys), current_price)
                 sells == orders_to_fill(st3.s.active_orders, "Sell", current_price)
             IN  fill_all(st3, "Sell", sells, Len(sells), current_price)

pause_grid(s) == [ s EXCEPT !.status = "Paused" ]

\* the stop that sets the status and leaves the orders as they are
stop_grid_keeps_orders(s) == [ s EXCEPT !.status = "Stopped" ]

resume_grid(s) == IF s.status = "Paused" THEN [ s EXCEPT !.status = "Active" ] ELSE s

stop_grid(s) ==
    [ s EXCEPT !.status = "Stopped",
               !.active_orders =
                   [ i \in 1..Len(s.active_orders) |->
                       IF s.active_orders[i].status \in { "Pending", "Active" }
                       THEN [ s.active_orders[i] EXCEPT !.status = "Cancelled" ]
                       ELSE s.active_orders[i] ] ]

\* spacing * m where the multiplier m is num / den
scale(x, num, den) == RoundDiv(x * num, den)

\* the test that takes any move of the price for a significant one
price_moved_at_all(current_price, last_price) == current_price # last_price

\* |(current - last) / last| > 0.05 ; x/0 is +-infinity and 0/0 is NaN
price_moved(current_price, last_price) ==
    IF last_price = 0 THEN current_price # 0
    ELSE Abs(current_price - last_price) * 100 > 5 * Abs(last_price)

\* an adjustment whose "critical" branch pauses whatever the status
adjust_critical_always_pauses(s, whale_impact, price_impact, current_price) ==
    IF whale_impact = "critical"
    THEN [ s |-> [ s EXCEPT !.status = "Paused" ],
           actions |-> << "Grid paused due to critical whale activity" >> ]
    ELSE [ s |-> s, actions |-> << >> ]

adjust_grid_for_whale_activity(s, whale_impact, price_impact, current_price) ==
    CASE whale_impact = "critical" ->
            IF s.status = "Active"
            THEN [ s |-> [ s EXCEPT !.status = "Paused" ],
                   actions |-> << "Grid paused due to critical whale activity" >> ]
            ELSE [ s |-> s, actions |-> << >> ]
      [] whale_impact = "high" ->
            LET s1 == [ s EXCEPT !.grid_spacing =
                          scale(s.grid_spacing, 100 + Min(price_impact, 50), 100) ]
                range_expansion == scale(s1.upper_price - s1.lower_price, 2, 10)
                half == RoundDiv(range_expansion, 2)
            IN  IF price_moved(current_price, s1.last_price)
                THEN [ s |-> [ s1 EXCEPT !.lower_price = Max(s1.lower_price - half, 0),
                                         !.upper_price = s1.upper_price + half ],
                       actions |-> << "Grid range expanded due to whale activity",
                                      "Grid spacing widened for high volatility" >> ]
                ELSE [ s |-> s1,
                       actions |-> << "Grid spacing widened for high volatility" >> ]
      [] whale_impact = "medium" ->
            [ s |-> [ s EXCEPT !.grid_spacing = scale(s.grid_spacing, 11, 10) ],
              actions |-> << "Grid spacing slightly widened" >> ]
      [] OTHER -> [ s |-> s, actions |-> << >> ]

\* avg_volatility and whale_activity_level are given in percent
optimize_grid_for_volatility(s, avg_volatility, whale_activity_level) ==
    LET s1 == [ s EXCEPT !.grid_spacing =
                  scale(s.grid_spacing, 20000 + avg_volatility * whale_activity_level,
                        20000) ]
        orders_to_cancel == Len(s1.active_orders) \div 4
    IN  IF avg_volatility > 10 /\ whale_activity_level > 70
        THEN [ s1 EXCEPT !.active_orders =
                 [ i \in 1..Len(s1.active_orders) |->
                     IF i - 1 < orders_to_cancel /\ s1.active_orders[i].status = "Pending"
                     THEN [ s1.active_orders[i] EXCEPT !.status = "Cancelled" ]
                     ELSE s1.active_orders[i] ] ]
        ELSE s1

\* ----------------------------------------------------------- grid actions
TickPrices == { 0, 50, 100, 150, 200, 250 }

AdjustPrices == { 100, 105, 250 }

WhaleImpacts == { "critical", "high", "medium", "low" }

PriceImpacts == { -200, 60 }

Volatilities == { -300, 20 }

ActivityLevels == { 50, 100 }

GridInit ==
    /\ strategy = NoStrategy
    /\ create_result = "none"
    /\ new_orders = << >>
    /\ tick_from = ""
    /\ actions = << >>
    /\ next_id = 1
    /\ adjustments = 0

CreateGrid ==
    /\ strategy.status = "None"
    /\ \E request \in Requests :
         /\ create_result' = create_validation(request)
         /\ IF create_result' = "Ok"
            THEN /\ strategy' = create_grid_strategy(request, next_id)
                 /\ next_id' = next_id + request.grid_count
            ELSE UNCHANGED << strategy, next_id >>
    /\ new_orders' = << >>
    /\ tick_from' = ""
    /\ actions' = << >>
    /\ UNCHANGED adjustments
    /\ UNCHANGED << riskVars, tradeVars, auxVars >>

\* one call of update_grid_with_price, made while fewer than `bound` orders
\* are completed
ApplyTick(bound) ==
    /\ strategy.status # "None"
    /\ Len(strategy.completed_orders) < bound
    /\ \E current_price \in TickPrices :
         LET r == update_grid_with_price(strategy, current_price, next_id)
         IN  /\ strategy' = r.s
             /\ new_orders' = r.new_orders
             /\ next_id' = r.next_id
    /\ tick_from' = strategy.status
    /\ actions' = << >>
    /\ UNCHANGED << create_result, adjustments >>
    /\ UNCHANGED << riskVars, tradeVars, auxVars >>

PriceTick == ApplyTick(MaxTrades)

\* the tick of a strategy that only ever receives ticks
LoneTick == ApplyTick(MaxLoneTrades)

PauseGrid ==
    /\ strategy.status # "None"
    /\ strategy' = pause_grid(strategy)
    /\ new_orders' = << >>
    /\ tick_from' = ""
    /\ actions' = << >>
    /\ UNCHANGED << create_result, next_id, adjustments >>
    /\ UNCHANGED << riskVars, tradeVars, auxVars >>

ResumeGrid ==
    /\ strategy.status # "None"
    /\ strategy' = resume_grid(strategy)
    /\ new_orders' = << >>
    /\ tick_from' = ""
    /\ actions' = << >>
    /\ UNCHANGED << create_result, next_id, adjustments >>
    /\ UNCHANGED << riskVars, tradeVars, auxVars >>

StopGrid ==
    /\ strategy.status # "None"
    /\ strategy' = stop_grid(strategy)
    /\ new_orders' = << >>
    /\ tick_from' = ""
    /\ actions' = << >>
    /\ UNCHANGED << create_result, next_id, adjustments >>
    /\ UNCHANGED << riskVars, tradeVars, auxVars >>

AdjustGrid ==
    /\ strategy.status # "None"
    /\ adjustments < MaxAdjust
    /\ \E whale_impact \in WhaleImpacts, price_impact \in PriceImpacts,
          current_price \in AdjustPrices :
         LET r == adjust_grid_for_whale_activity(strategy, whale_impact,
                                                 price_impact, current_price)
         IN  /\ strategy' = r.s
             /\ actions' = r.actions
    /\ adjustments' = adjustments + 1
    /\ new_orders' = << >>
    /\ tick_from' = ""
    /\ UNCHANGED << create_result, next_id >>
    /\ UNCHANGED << riskVars, tradeVars, auxVars >>

\* one call of optimize_grid_for_volatility, made while fewer than `bound`
\* adjustments were made
ApplyOptimize(bound) ==
    /\ strategy.status # "None"
    /\ adjustments < bound
    /\ \E avg_volatility \in Volatilities, whale_activity_level \in ActivityLevels :
         strategy' = optimize_grid_for_volatility(strategy, avg_volatility,
                                                  whale_activity_level)
    /\ adjustments' = adjustments + 1
    /\ new_orders' = << >>
    /\ tick_from' = ""
    /\ actions' = << >>
    /\ UNCHANGED << create_result, next_id >>
    /\ UNCHANGED << riskVars, tradeVars, auxVars >>

OptimizeGrid == ApplyOptimize(MaxAdjust)

\* the optimization of a strategy that is optimized again and again
Reoptimize == ApplyOptimize(MaxOptimize)

\* larger grids, for the calls that cancel orders
OptimizeRequests ==
    [ lower_price       : { 0 },
      upper_price       : { 200 },
      grid_count        : { 4, 5, 8 },
      investment_amount : { 40 } ]

\* --------------------------------------------------------- risk_engine.rs
Users == { 1, 2 }

Tokens == { "TOKA", "BAD" }

NoError == [ kind |-> "Ok", a |-> 0, b |-> 0, s |-> "" ]

RiskError(kind, a, b, s) == [ kind |-> kind, a |-> a, b |-> b, s |-> s ]

\* impl Default for RiskProfile
DefaultProfile ==
    [ max_trade_size_usd          |-> 100,
      max_daily_loss_usd          |-> 50,
      max_open_positions          |-> 5,
      default_stop_loss_percent   |-> 15,
      default_take_profit_percent |-> 30,
      kill_switch_enabled         |-> FALSE,
      blacklist_enabled           |-> TRUE ]

\* rows the risk_profiles table may hold when the engine starts
StoredProfiles ==
    { [ DefaultProfile EXCEPT !.max_open_positions = 2 ],
      [ DefaultProfile EXCEPT !.kill_switch_enabled = TRUE, !.max_open_positions = 2 ],
      [ DefaultProfile EXCEPT !.blacklist_enabled = FALSE, !.max_daily_loss_usd = 20 ] }

\* outcomes of the three DB statements check_trade_risk issues
\* (the first failing statement ends the call, so one failure at a time is general)
AllOk == [ select |-> "ok", insert |-> "ok", count |-> "ok" ]

DbOutcomes ==
    { AllOk,
      [ AllOk EXCEPT !.select = "err" ],
      [ AllOk EXCEPT !.insert = "err" ],
      [ AllOk EXCEPT !.count = "err" ] }

\* get_risk_profile: the stored row, or a default row inserted on first use
get_risk_profile(profiles, user_id, db) ==
    IF db.select = "err"
    THEN [ ok |-> FALSE, profile |-> DefaultProfile, profiles |-> profiles ]
    ELSE IF profiles[user_id] # None
    THEN [ ok |-> TRUE, profile |-> profiles[user_id][1], profiles |-> profiles ]
    ELSE IF db.insert = "err"
    THEN [ ok |-> FALSE, profile |-> DefaultProfile, profiles |-> profiles ]
    ELSE [ ok |-> TRUE, profile |-> DefaultProfile,
           profiles |-> [ profiles EXCEPT ![user_id] = Some(DefaultProfile) ] ]

FreshStats(day) == [ date |-> day, total_loss_usd |-> 0, trade_count |-> 0 ]

rollover_always_reset(stats_map, user_id, day) ==
    [ stats_map EXCEPT ![user_id] = Some(FreshStats(day)) ]

\* entry(user_id).or_insert(..) followed by the new-day reset (lines 118-133)
rollover_stats(stats_map, user_id, day) ==
    IF stats_map[user_id] = None \/ stats_map[user_id][1].date # day
    THEN [ stats_map EXCEPT ![user_id] = Some(FreshStats(day)) ]
    ELSE stats_map

\* the count taken over the rows of the other users
count_positions_others(rows, user_id) ==
    Cardinality({ i \in 1..Len(rows) : rows[i].user_id # user_id })

\* SELECT COUNT(*) FROM positions WHERE user_id = $1
count_positions(rows, user_id) ==
    Cardinality({ i \in 1..Len(rows) : rows[i].user_id = user_id })

static_check_size_first(profile, blacklist, token_address, amount_usd) ==
    IF profile.kill_switch_enabled
    THEN RiskError("KillSwitchActive", 0, 0, "")
    ELSE IF amount_usd > profile.max_trade_size_usd
    THEN RiskError("MaxTradeSizeExceeded", amount_usd, profile.max_trade_size_usd, "")
    ELSE IF profile.blacklist_enabled /\ token_address \in blacklist
    THEN RiskError("TokenBlacklisted", 0, 0, token_address)
    ELSE NoError

\* checks 2-4, which read the profile and the blacklist only
static_check(profile, blacklist, token_address, amount_usd) ==
    IF profile.kill_switch_enabled
    THEN RiskError("KillSwitchActive", 0, 0, "")
    ELSE IF profile.blacklist_enabled /\ token_address \in blacklist
    THEN RiskError("TokenBlacklisted", 0, 0, token_address)
    ELSE IF amount_usd > profile.max_trade_size_usd
    THEN RiskError("MaxTradeSizeExceeded", amount_usd, profile.max_trade_size_usd, "")
    ELSE NoError

check_trade_risk(user_id, token_address, amount_usd, db, profiles, stats_map, blacklist, rows, day) ==
    LET got == get_risk_profile(profiles, user_id, db)
        profile == got.profile
        early == static_check(profile, blacklist, token_address, amount_usd)
        stats_map2 == rollover_stats(stats_map, user_id, day)
        stats == stats_map2[user_id][1]
        open_positions_count == count_positions(rows, user_id)
    IN  IF ~ got.ok
        THEN [ result |-> RiskError("DatabaseError", 0, 0, "profile"),
               profiles |-> got.profiles, stats_map |-> stats_map ]
        ELSE IF early # NoError
        THEN [ result |-> early, profiles |-> got.profiles, stats_map |-> stats_map ]
        ELSE IF stats.total_loss_usd >= profile.max_daily_loss_usd
        THEN [ result |-> RiskError("MaxDailyLossExceeded", stats.total_loss_usd,
                                    profile.max_daily_loss_usd, ""),
               profiles |-> got.profiles, stats_map |-> stats_map2 ]
        ELSE IF db.count = "err"
        THEN [ result |-> RiskError("DatabaseError", 0, 0, "count"),
               profiles |-> got.profiles, stats_map |-> stats_map2 ]
        ELSE IF open_positions_count >= profile.max_open_positions
        THEN [ result |-> RiskError("MaxOpenPositionsExceeded", open_positions_count,
                                    profile.max_open_positions, ""),
               profiles |-> got.profiles, stats_map |-> stats_map2 ]
        ELSE [ result |-> NoError, profiles |-> got.profiles, stats_map |-> stats_map2 ]

record_trade_result(user_id, pnl_usd, stats_map) ==
    IF pnl_usd < 0 /\ stats_map[user_id] # None
    THEN [ stats_map EXCEPT ![user_id] =
             Some([ stats_map[user_id][1] EXCEPT
                      !.total_loss_usd = stats_map[user_id][1].total_loss_usd
                                         + Abs(pnl_usd) ]) ]
    ELSE stats_map

\* ----------------------------------------------------------- risk actions
AmountsUsd == { 75, 150 }

Pnls == { -20, 10 }

\* a row of the positions table; prices in cents, amount in 1/100 SOL, the
\* thresholds in percent; status takes its column default (the rows
\* get_positions selects are 'OPEN')
PositionRow(id, user_id, chain, amount) ==
    [ position_id |-> id, user_id |-> user_id, chain |-> chain, amount |-> amount,
      entry_price |-> 100, current_price |-> 100,
      take_profit_percent |-> 30, stop_loss_percent |-> -15, status |-> "OPEN" ]

\* contents of the positions table when the engine starts
StoredPositions ==
    { << PositionRow(1, 1, "solana", 50), PositionRow(2, 1, "solana", 50) >> }

NoCall ==
    [ op |-> "none", user_id |-> 0, token |-> "", amount_usd |-> 0, pnl_usd |-> 0,
      result |-> NoError ]

NoResponse == [ handler |-> "none", success |-> FALSE, error |-> "", position_id |-> 0 ]

TradeFixed ==
    /\ db_users = { }
    /\ transactions = << >>
    /\ pending_buys = << >>
    /\ response = NoResponse
    /\ sells_ok = 0

RiskFixed ==
    /\ risk_profiles = [ u \in Users |-> None ]
    /\ positions = << >>
    /\ daily_stats = [ u \in Users |-> None ]
    /\ global_blacklist = { }
    /\ dev_blacklist = { }
    /\ today = 0
    /\ call = NoCall
    /\ records = 0
    /\ recorded_today = [ u \in Users |-> 0 ]
    /\ written_on = [ u \in Users |-> -1 ]

RiskInit ==
    /\ risk_profiles \in { [ u \in Users |-> IF u = 1 THEN row ELSE None ] :
                             row \in { None } \cup { Some(p) : p \in StoredProfiles } }
    /\ positions \in StoredPositions
    /\ daily_stats = [ u \in Users |-> None ]
    /\ global_blacklist = { "BAD" }
    /\ dev_blacklist = { }
    /\ today = 0
    /\ call = NoCall
    /\ records = 0
    /\ recorded_today = [ u \in Users |-> 0 ]
    /\ written_on = [ u \in Users |-> -1 ]

\* days on which the total_loss_usd fields that a step rewrote were written
stamp(old_map, new_map, day) ==
    [ u \in Users |-> IF new_map[u] # old_map[u] THEN day ELSE written_on[u] ]

CheckTradeRisk ==
    /\ \E user_id \in Users, token \in Tokens, amount_usd \in AmountsUsd, db \in DbOutcomes :
         LET r == check_trade_risk(user_id, token, amount_usd, db, risk_profiles,
                                   daily_stats, global_blacklist, positions, today)
         IN  /\ risk_profiles' = r.profiles
             /\ daily_stats' = r.stats_map
             /\ call' = [ op |-> "check_trade_risk", user_id |-> user_id,
                          token |-> token, amount_usd |-> amount_usd, pnl_usd |-> 0,
                          result |-> r.result ]
             /\ written_on' = stamp(daily_stats, r.stats_map, today)
    /\ UNCHANGED << positions, global_blacklist, dev_blacklist, today, records,
                    recorded_today >>
    /\ UNCHANGED << gridVars, tradeVars, auxVars >>

RecordTradeResult ==
    /\ records < MaxRecords
    /\ \E user_id \in Users, pnl_usd \in Pnls :
         LET m == record_trade_result(user_id, pnl_usd, daily_stats)
         IN  /\ daily_stats' = m
             /\ call' = [ NoCall EXCEPT !.op = "record_trade_result",
                                        !.user_id = user_id, !.pnl_usd = pnl_usd ]
             /\ recorded_today' =
                  [ recorded_today EXCEPT ![user_id] =
                      @ + (IF pnl_usd < 0 THEN Abs(pnl_usd) ELSE 0) ]
             /\ written_on' = stamp(daily_stats, m, today)
    /\ records' = records + 1
    /\ UNCHANGED << risk_profiles, positions, global_blacklist, dev_blacklist, today >>
    /\ UNCHANGED << gridVars, tradeVars, auxVars >>

\* midnight (UTC) passes
AdvanceDay ==
    /\ today < MaxDay
    /\ today' = today + 1
    /\ recorded_today' = [ u \in Users |-> 0 ]
    /\ call' = NoCall
    /\ UNCHANGED << risk_profiles, positions, daily_stats, global_blacklist,
                    dev_blacklist, records, written_on >>
    /\ UNCHANGED << gridVars, tradeVars, auxVars >>

\* ------------------------------------------- risk_engine.rs, step by step
\* A call in flight: `pc` is the await it is suspended on ("profile": the
\* get_risk_profile queries, "lock": daily_stats.write(), "count": the
\* open-positions query) or "idle" when the task runs no call.
IdleTask == [ op |-> "none", user_id |-> 0, pnl_usd |-> 0, pc |-> "idle",
              profile |-> DefaultProfile ]

TaskIds == 1..MaxTasks

LockFixed ==
    /\ stats_lock = 0
    /\ tasks = [ t \in TaskIds |-> IdleTask ]

\* check_trade_risk is called and awaits get_risk_profile (line 95)
StartCheck ==
    /\ \E t \in TaskIds, user_id \in Users :
         /\ tasks[t].pc = "idle"
         /\ tasks' = [ tasks EXCEPT ![t] = [ IdleTask EXCEPT !.op = "check_trade_risk",
                                                            !.user_id = user_id,
                                                            !.pc = "profile" ] ]
    /\ UNCHANGED << stats_lock, riskVars, otherThanLock >>

\* the profile arrives; checks 2-4 run, then the call awaits the write lock
\* (lines 95-119)
ProfileReturns ==
    /\ \E t \in TaskIds, db \in { AllOk, [ AllOk EXCEPT !.select = "err" ] } :
         /\ tasks[t].pc = "profile"
         /\ LET got == get_risk_profile(risk_profiles, tasks[t].user_id, db)
                early == static_check(got.profile, global_blacklist, "TOKA", 75)
            IN  /\ risk_profiles' = got.profiles
                /\ tasks' = [ tasks EXCEPT ![t] =
                                IF got.ok /\ early = NoError
                                THEN [ @ EXCEPT !.pc = "lock", !.profile = got.profile ]
                                ELSE IdleTask ]
    /\ UNCHANGED << positions, daily_stats, global_blacklist, dev_blacklist, today,
                    call, records, recorded_today, written_on >>
    /\ UNCHANGED << stats_lock, otherThanLock >>

\* record_trade_result is called; with a loss it awaits the write lock
\* (lines 160-161)
StartRecord ==
    /\ records < MaxRecords
    /\ \E t \in TaskIds, user_id \in Users, pnl_usd \in Pnls :
         /\ tasks[t].pc = "idle"
         /\ tasks' = [ tasks EXCEPT ![t] =
                         IF pnl_usd < 0
                         THEN [ IdleTask EXCEPT !.op = "record_trade_result",
                                                !.user_id = user_id,
                                                !.pnl_usd = pnl_usd, !.pc = "lock" ]
                         ELSE IdleTask ]
         /\ recorded_today' =
              [ recorded_today EXCEPT ![user_id] =
                  @ + (IF pnl_usd < 0 THEN Abs(pnl_usd) ELSE 0) ]
    /\ records' = records + 1
    /\ UNCHANGED << risk_profiles, positions, daily_stats, global_blacklist,
                    dev_blacklist, today, call, written_on >>
    /\ UNCHANGED << stats_lock, otherThanLock >>

\* daily_stats.write() is granted.  record_trade_result adds the loss and
\* drops the guard (lines 161-165).  check_trade_risk rolls the entry over
\* and compares; the guard lives to the end of the function, so it is
\* dropped by the early return but held across the count query
\* (lines 119-146).
AcquireStats ==
    /\ stats_lock = 0
    /\ \E t \in TaskIds :
         /\ tasks[t].pc = "lock"
         /\ LET user_id == tasks[t].user_id
                rolled == rollover_stats(daily_stats, user_id, today)
                m == IF tasks[t].op = "record_trade_result"
                     THEN record_trade_result(user_id, tasks[t].pnl_usd, daily_stats)
                     ELSE rolled
                suspends ==
                    /\ tasks[t].op = "check_trade_risk"
                    /\ rolled[user_id][1].total_loss_usd
                         < tasks[t].profile.max_daily_loss_usd
            IN  /\ daily_stats' = m
                /\ written_on' = stamp(daily_stats, m, today)
                /\ stats_lock' = IF suspends THEN t ELSE 0
                /\ tasks' = [ tasks EXCEPT ![t] =
                                IF suspends THEN [ @ EXCEPT !.pc = "count" ]
                                            ELSE IdleTask ]
    /\ UNCHANGED << risk_profiles, positions, global_blacklist, dev_blacklist, today,
                    call, records, recorded_today >>
    /\ UNCHANGED otherThanLock

\* the open-positions count arrives; the call returns and drops the guard
\* (lines 140-152)
CountReturns ==
    /\ \E t \in TaskIds :
         /\ tasks[t].pc = "count"
         /\ tasks' = [ tasks EXCEPT ![t] = IdleTask ]
    /\ stats_lock' = 0
    /\ UNCHANGED << riskVars, otherThanLock >>

\* ------------------------------------------------------------------ main.rs
\* BuyRequest.amount is a string: it parses to an f64 (held in 1/100 SOL) or not
BuyAmounts ==
    { [ parses |-> FALSE, sol |-> 0 ],
      [ parses |-> TRUE, sol |-> 0 ],
      [ parses |-> TRUE, sol |-> 50 ],
      [ parses |-> TRUE, sol |-> 100 ],
      [ parses |-> TRUE, sol |-> 10100 ] }

\* token strings a request may carry, with their lengths
BuyTokens == { "TOKA", "BAD", "short" }

token_len(token) == IF token = "short" THEN 5 ELSE 44

Chains == { "solana", "doge" }

\* input validation of execute_buy (lines 864-900): "" when the request is valid
buy_validation(amount, token) ==
    IF ~ amount.parses THEN "Invalid amount format"
    ELSE IF amount.sol <= 0 THEN "Amount must be greater than 0"
    ELSE IF amount.sol > 10000 THEN "Amount too large"
    ELSE IF token_len(token) < 32 \/ token_len(token) > 44
    THEN "Invalid token address format"
    ELSE ""

\* amount * sol_price with the mock price of 150 USD (lines 910-911)
buy_amount_usd(amount) == (amount.sol * 150) \div 100

\* impl Display for RiskError (risk_engine.rs lines 70-83): the text, with
\* the values it interpolates
Display(e) ==
    IF e.kind = "KillSwitchActive"
    THEN << "Kill switch is ACTIVE. Trading disabled." >>
    ELSE IF e.kind = "MaxTradeSizeExceeded"
    THEN << "Trade size $", e.a, " exceeds limit $", e.b >>
    ELSE IF e.kind = "MaxDailyLossExceeded"
    THEN << "Daily loss limit reached ($", e.a, " / $", e.b, ")" >>
    ELSE IF e.kind = "MaxOpenPositionsExceeded"
    THEN << "Max open positions reached (", e.a, "/", e.b, ")" >>
    ELSE IF e.kind = "TokenBlacklisted"
    THEN << "Token is blacklisted: ", e.s >>
    ELSE IF e.kind = "DevBlacklisted"
    THEN << "Developer wallet is blacklisted: ", e.s >>
    ELSE IF e.kind = "InsufficientLiquidity"
    THEN << "Insufficient liquidity for safe trade" >>
    ELSE << "Risk engine DB error: ", e.s >>

\* the error text that leaves the reason out
risk_control_error_bare(e) == << "Risk Control: " >>

\* format!("Risk Control: {}", e) (main.rs line 925)
risk_control_error(e) == << "Risk Control: " >> \o Display(e)

BuyResponse(success, error, position_id) ==
    [ handler |-> "execute_buy", success |-> success, error |-> error,
      position_id |-> position_id ]

SellResponse(success, error, position_id) ==
    [ handler |-> "execute_sell", success |-> success, error |-> error,
      position_id |-> position_id ]

\* the requests explored: every valid combination, and one request per
\* validation failure (a failed validation reads nothing else)
BuyInputs ==
    { [ token |-> t, amount |-> a, is_simulation |-> FALSE, db |-> db ] :
        t \in { "TOKA", "BAD" },
        a \in { x \in BuyAmounts : x.parses /\ x.sol \in { 50, 100 } },
        db \in DbOutcomes }
    \cup { [ token |-> "TOKA", amount |-> [ parses |-> TRUE, sol |-> 50 ],
             is_simulation |-> TRUE, db |-> AllOk ] }
    \cup { [ token |-> "TOKA", amount |-> a, is_simulation |-> FALSE, db |-> AllOk ] :
             a \in BuyAmounts }
    \cup { [ token |-> t, amount |-> [ parses |-> TRUE, sol |-> 50 ],
             is_simulation |-> FALSE, db |-> AllOk ] : t \in BuyTokens }

\* the users whose trade requests are explored
TradeUsers == { 1 }

\* execute_buy up to the end of its risk check (lines 862-931)
BuyRiskCheck ==
    /\ Len(positions) + Len(pending_buys) < MaxPositions
    /\ Len(pending_buys) < MaxInflight
    /\ \E user_id \in TradeUsers, in \in BuyInputs :
         LET invalid == buy_validation(in.amount, in.token)
             amount_usd == buy_amount_usd(in.amount)
             r == check_trade_risk(user_id, in.token, amount_usd, in.db,
                                   risk_profiles, daily_stats, global_blacklist,
                                   positions, today)
             request == [ user_id |-> user_id, token |-> in.token,
                          amount |-> in.amount, is_simulation |-> in.is_simulation ]
         IN  IF invalid # ""
             THEN /\ response' = BuyResponse(FALSE, invalid, 0)
                  /\ call' = NoCall
                  /\ UNCHANGED << db_users, pending_buys, risk_profiles, daily_stats,
                                  written_on >>
             ELSE /\ db_users' = db_users \cup { user_id }
                  /\ IF in.is_simulation
                     THEN /\ pending_buys' = Append(pending_buys, request)
                          /\ response' = NoResponse
                          /\ call' = NoCall
                          /\ UNCHANGED << risk_profiles, daily_stats, written_on >>
                     ELSE /\ risk_profiles' = r.profiles
                          /\ daily_stats' = r.stats_map
                          /\ written_on' = stamp(daily_stats, r.stats_map, today)
                          /\ call' = [ op |-> "check_trade_risk", user_id |-> user_id,
                                       token |-> in.token, amount_usd |-> amount_usd,
                                       pnl_usd |-> 0, result |-> r.result ]
                          /\ IF r.result = NoError
                             THEN /\ pending_buys' = Append(pending_buys, request)
                                  /\ response' = NoResponse
                             ELSE /\ pending_buys' = pending_buys
                                  /\ response' = BuyResponse(FALSE,
                                                   risk_control_error(r.result), 0)
    /\ UNCHANGED << positions, global_blacklist, dev_blacklist, today, records,
                    recorded_today, transactions, sells_ok >>
    /\ UNCHANGED << gridVars, auxVars >>

\* what the collaborators of the second half of execute_buy answer, and the
\* request fields first read there; one deviation from the all-ok path at a time
BuyOk ==
    [ security |-> "safe", ignore_safety |-> FALSE, bundler_enabled |-> FALSE,
      rpc |-> "ok", insert_tx |-> TRUE, insert_position |-> TRUE ]

BuyPaths ==
    { BuyOk,
      [ BuyOk EXCEPT !.security = "err" ],
      [ BuyOk EXCEPT !.security = "unsafe" ],
      [ BuyOk EXCEPT !.security = "unsafe", !.ignore_safety = TRUE ],
      [ BuyOk EXCEPT !.bundler_enabled = TRUE ],
      [ BuyOk EXCEPT !.rpc = "err" ],
      [ BuyOk EXCEPT !.insert_tx = FALSE ],
      [ BuyOk EXCEPT !.insert_position = FALSE ] }

\* result of the swap of a buy (lines 993-1002); no request explored carries
\* an EVM chain
buy_swap(request, chain, rpc) ==
    IF request.is_simulation THEN "ok"
    ELSE IF chain = "solana" THEN rpc
    ELSE "err"

\* the rest of execute_buy (lines 933-1072)
BuyExecute ==
    /\ \E i \in 1..Len(pending_buys), chain \in Chains, path \in BuyPaths :
         LET request == pending_buys[i]
             is_safe == IF chain # "solana" THEN "safe" ELSE path.security
             position_id == Len(positions) + 1
         IN  /\ pending_buys' = RemoveAt(pending_buys, i)
             /\ IF is_safe = "err" \/ (is_safe = "unsafe" /\ ~ path.ignore_safety)
                THEN /\ response' = BuyResponse(FALSE, "Token Risk", 0)
                     /\ UNCHANGED << positions, transactions >>
                ELSE IF path.bundler_enabled
                THEN /\ response' = BuyResponse(TRUE, "", 0)
                     /\ UNCHANGED << positions, transactions >>
                ELSE IF buy_swap(request, chain, path.rpc) = "err"
                THEN /\ response' = BuyResponse(FALSE, "swap", 0)
                     /\ UNCHANGED << positions, transactions >>
                ELSE /\ Len(transactions) < MaxTransactions
                     /\ transactions' =
                          IF path.insert_tx
                          THEN Append(transactions,
                                      [ type |-> IF request.is_simulation
                                                 THEN "SIM_BUY" ELSE "BUY",
                                        user_id |-> request.user_id ])
                          ELSE transactions
                     /\ positions' =
                          IF path.insert_position
                          THEN Append(positions,
                                      PositionRow(position_id, request.user_id, chain,
                                                  request.amount.sol))
                          ELSE positions
                     /\ response' = BuyResponse(TRUE, "", 0)
    /\ call' = NoCall
    /\ UNCHANGED << risk_profiles, daily_stats, global_blacklist, dev_blacklist, today,
                    records, recorded_today, written_on, db_users, sells_ok >>
    /\ UNCHANGED << gridVars, auxVars >>

\* result of the swap of a sell (lines 1111-1115)
sell_swap(chain, rpc) == IF chain = "solana" THEN rpc ELSE "err"

\* UPDATE positions SET status = 'CLOSED' for a full sell (lines 1145-1154)
close_position(rows, i, percent, update_ok) ==
    IF percent >= 100 /\ update_ok
    THEN [ rows EXCEPT ![i].status = "CLOSED" ]
    ELSE rows

SellOk == [ select |-> "ok", rpc |-> "ok", insert_tx |-> TRUE, update_ok |-> TRUE ]

SellPaths ==
    { SellOk,
      [ SellOk EXCEPT !.select = "err" ],
      [ SellOk EXCEPT !.rpc = "err" ],
      [ SellOk EXCEPT !.insert_tx = FALSE ],
      [ SellOk EXCEPT !.update_ok = FALSE ] }

\* one call of execute_sell, made while fewer than `bound` sells succeeded
ApplySell(bound) ==
    /\ sells_ok < bound
    /\ Len(transactions) < MaxTransactions
    /\ \E position_id \in 1..(Len(positions) + 1), percent \in { 50, 100 },
          path \in SellPaths :
         IF path.select = "err"
         THEN /\ response' = SellResponse(FALSE, "db", position_id)
              /\ UNCHANGED << positions, transactions, sells_ok >>
         ELSE IF position_id > Len(positions)
         THEN /\ response' = SellResponse(FALSE, "Position not found", position_id)
              /\ UNCHANGED << positions, transactions, sells_ok >>
         ELSE LET position == positions[position_id]
              IN  IF sell_swap(position.chain, path.rpc) = "err"
                  THEN /\ response' = SellResponse(FALSE, "swap", position_id)
                       /\ UNCHANGED << positions, transactions, sells_ok >>
                  ELSE /\ transactions' =
                            IF path.insert_tx
                            THEN Append(transactions,
                                        [ type |-> "SELL", user_id |-> position.user_id ])
                            ELSE transactions
                       /\ positions' = close_position(positions, position_id, percent,
                                                      path.update_ok)
                       /\ sells_ok' = sells_ok + 1
                       /\ response' = SellResponse(TRUE, "", position_id)
    /\ call' = NoCall
    /\ UNCHANGED << risk_profiles, daily_stats, global_blacklist, dev_blacklist, today,
                    records, recorded_today, written_on, db_users, pending_buys >>
    /\ UNCHANGED << gridVars, auxVars >>

ExecuteSell == ApplySell(MaxSells)

\* execute_sell on a table that only receives sells
LoneSell == ApplySell(MaxLoneSells)

\* the PositionStatus get_positions builds for a row (lines 1191-1200)
position_status(p) ==
    [ position     |-> p,
      pnl_percent  |-> RoundDiv((p.current_price - p.entry_price) * 100, p.entry_price),
      pnl_usd      |-> 0,
      should_close |-> FALSE,
      reason       |-> None ]

RECURSIVE open_positions_of(_, _)
\* SELECT * FROM positions WHERE user_id = $1 AND status = 'OPEN', as statuses
open_positions_of(rows, user_id) ==
    IF rows = << >> THEN << >>
    ELSE (IF Head(rows).user_id = user_id /\ Head(rows).status = "OPEN"
          THEN << position_status(Head(rows)) >> ELSE << >>)
         \o open_positions_of(Tail(rows), user_id)

\* get_positions (lines 1180-1206): reads the table and changes nothing
GetPositions ==
    /\ \E user_id \in Users, select \in { "ok", "err" } :
         response' = [ handler |-> "get_positions", success |-> select = "ok",
                       user_id |-> user_id,
                       statuses |-> IF select = "ok"
                                    THEN open_positions_of(positions, user_id)
                                    ELSE << >> ]
    /\ call' = NoCall
    /\ UNCHANGED << risk_profiles, positions, daily_stats, global_blacklist,
                    dev_blacklist, today, records, recorded_today, written_on,
                    db_users, transactions, pending_buys, sells_ok >>
    /\ UNCHANGED << gridVars, auxVars >>

\* current prices the price worker may have stored: a pnl of -15, 0, 15, 30
\* and 40 percent
PositionPrices == { 85, 100, 115, 130, 140 }

\* contents of the positions table when get_positions is called
PositionTables ==
    { << [ PositionRow(1, 1, "solana", 50) EXCEPT !.current_price = c1, !.status = s1 ],
         [ PositionRow(2, 1, "solana", 50) EXCEPT !.current_price = c2, !.status = s2 ] >> :
        c1 \in PositionPrices, c2 \in PositionPrices,
        s1 \in { "OPEN", "CLOSED" }, s2 \in { "OPEN", "CLOSED" } }

PositionInit ==
    /\ risk_profiles = [ u \in Users |-> None ]
    /\ positions \in PositionTables
    /\ daily_stats = [ u \in Users |-> None ]
    /\ global_blacklist = { }
    /\ dev_blacklist = { }
    /\ today = 0
    /\ call = NoCall
    /\ records = 0
    /\ recorded_today = [ u \in Users |-> 0 ]
    /\ written_on = [ u \in Users |-> -1 ]

TradeInit ==
    /\ risk_profiles \in
         { [ u \in Users |-> IF u = 1 THEN row ELSE None ] :
             row \in { None, Some([ DefaultProfile EXCEPT !.max_open_positions = 1 ]) } }
    /\ positions = << >>
    /\ daily_stats = [ u \in Users |-> None ]
    /\ global_blacklist = { "BAD" }
    /\ dev_blacklist = { }
    /\ today = 0
    /\ call = NoCall
    /\ records = 0
    /\ recorded_today = [ u \in Users |-> 0 ]
    /\ written_on = [ u \in Users |-> -1 ]

\* ------------------------------------------------------- whale_tracker.rs
\* The f64 values of the whale tracker are kept in thousandths: a size of
\* 150,000 USD is 150000000, an impact of 1.5 percent is 1500.  As in f64, a
\* result smaller than half the smallest step rounds to zero.
Usd(dollars) == dollars * 1000

time_window == 300

\* KNOWN_WHALES
known_label(wallet_address) ==
    IF wallet_address = "5Q544fKrFoe6tsEbD7S8EmxGTJYAKtTVhAW5Q5pge4j1"
    THEN Some("Alameda (Tagged)")
    ELSE IF wallet_address = "9WzDXwBbmkg8ZTbNMqUxvQRAyrZzDsGYdLVL9zYtAWWM"
    THEN Some("Binance Hot Wallet")
    ELSE None

WhaleTrade(chain, token, size_usd, price, timestamp, wallet_address) ==
    [ chain |-> chain, token |-> token, size_usd |-> size_usd, price |-> price,
      timestamp |-> timestamp, wallet_address |-> wallet_address ]

NoTrade == WhaleTrade("", "", 0, 0, 0, "")

RECURSIVE SqrtBetween(_, _, _)
\* the largest r in lo..hi with r * r <= n
SqrtBetween(n, lo, hi) ==
    IF lo = hi THEN lo
    ELSE LET mid == (lo + hi + 1) \div 2
         IN  IF mid * mid <= n THEN SqrtBetween(n, mid, hi)
                               ELSE SqrtBetween(n, lo, mid - 1)

\* the square root of n, rounded to the nearest integer
Sqrt(n) ==
    LET r == SqrtBetween(n, 0, Min(n, 46340))
    IN  IF n - r * r > r THEN r + 1 ELSE r

\* x.powf(1.5) = x * sqrt(x), for x in thousandths
powf_1_5(x) == RoundDiv(x * Sqrt(x * 1000), 1000)

\* a / b in thousandths, for b a whole number of units
Ratio(a, b) == RoundDiv(a, b \div 1000)

\* the price impact that no longer grows above 5 percent
calculate_price_impact_capped(size_usd, chain) ==
    LET depth == IF chain = "solana" THEN 100000
                 ELSE IF chain \in { "eth", "ethereum" } THEN 500000
                 ELSE IF chain \in { "bsc", "binance" } THEN 250000
                 ELSE 100000
        base_impact == RoundDiv(size_usd, depth)
    IN  Min(RoundDiv(base_impact * (1000 + powf_1_5(RoundDiv(size_usd, 1000000))),
                     1000), 5000)

calculate_price_impact(size_usd, chain) ==
    LET depth == IF chain = "solana" THEN 100000
                 ELSE IF chain \in { "eth", "ethereum" } THEN 500000
                 ELSE IF chain \in { "bsc", "binance" } THEN 250000
                 ELSE 100000
        base_impact == RoundDiv(size_usd, depth)
    IN  RoundDiv(base_impact * (1000 + powf_1_5(RoundDiv(size_usd, 1000000))), 1000)

calculate_trade_velocity(trade, trades) ==
    LET cutoff == trade.timestamp - time_window
        rapid_trades ==
            Cardinality({ i \in 1..Len(trades) :
                             /\ trades[i].wallet_address = trade.wallet_address
                             /\ trades[i].timestamp >= cutoff
                             /\ trades[i].token = trade.token })
    IN  Min(RoundDiv(rapid_trades * 1000, 3), 1000)

\* the classification that takes a value on a threshold as above it
market_impact_inclusive(price_impact, velocity_score, volume_anomaly) ==
    IF price_impact >= 10000 \/ velocity_score >= 800 THEN "Critical"
    ELSE IF price_impact >= 5000 \/ velocity_score >= 600 THEN "High"
    ELSE IF price_impact >= 1000 \/ volume_anomaly >= 3000 THEN "Medium"
    ELSE "Low"

\* detect_whale_activity: the market impact
market_impact(price_impact, velocity_score, volume_anomaly) ==
    IF price_impact > 10000 \/ velocity_score > 800 THEN "Critical"
    ELSE IF price_impact > 5000 \/ velocity_score > 600 THEN "High"
    ELSE IF price_impact > 1000 \/ volume_anomaly > 3000 THEN "Medium"
    ELSE "Low"

\* the first-entry test that also takes a trade of the same second as previous
is_first_entry_same_second(trade, trades) ==
    { i \in 1..Len(trades) :
         /\ trades[i].wallet_address = trade.wallet_address
         /\ trades[i].token = trade.token
         /\ trades[i].timestamp <= trade.timestamp } = { }

\* detect_whale_activity: previous_trades == 0
is_first_entry(trade, trades) ==
    { i \in 1..Len(trades) :
         /\ trades[i].wallet_address = trade.wallet_address
         /\ trades[i].token = trade.token
         /\ trades[i].timestamp < trade.timestamp } = { }

\* detect_whale_activity: the confidence score, in whole points
confidence_score(trade, trades) ==
    LET base == 70
        known == IF known_label(trade.wallet_address) # None THEN base + 20 ELSE base
        first == IF is_first_entry(trade, trades) THEN known + 5 ELSE known
        large == IF trade.size_usd > Usd(500000) THEN first + 5 ELSE first
    IN  IF large > 100 THEN 100 ELSE large

detect_whale_activity(trade, trades, avg_volume) ==
    LET price_impact == calculate_price_impact(trade.size_usd, trade.chain)
        volume_anomaly == IF avg_volume > 0 THEN Ratio(trade.size_usd, avg_volume)
                                            ELSE 1000
        velocity_score == calculate_trade_velocity(trade, trades)
    IN  [ trade            |-> trade,
          price_impact     |-> price_impact,
          volume_anomaly   |-> volume_anomaly,
          velocity_score   |-> velocity_score,
          market_impact    |-> market_impact(price_impact, velocity_score,
                                             volume_anomaly),
          known_label      |-> known_label(trade.wallet_address),
          is_first_entry   |-> is_first_entry(trade, trades),
          confidence_score |-> confidence_score(trade, trades) ]

\* analyze_whale_impact_for_grid: prices in whole units, `* 1.05` and `* 0.95`
\* compared in hundredths
analyze_whale_impact_for_grid(a, current_price, grid_range) ==
    LET recommended_action ==
            CASE a.market_impact = "Critical" ->
                   IF \/ a.trade.price * 100 > current_price * 105
                      \/ a.trade.price * 100 < current_price * 95
                   THEN "PAUSE_GRID - Whale activity causing significant price movement"
                   ELSE "REDUCE_GRID_SPACING - High volatility expected"
              [] a.market_impact = "High" ->
                   IF a.velocity_score > 600
                   THEN "PAUSE_GRID - Rapid whale trades detected"
                   ELSE "WIDEN_GRID_RANGE - Adjust for increased volatility"
              [] a.market_impact = "Medium" -> "MONITOR - Continue with caution"
              [] OTHER -> "CONTINUE - Normal market conditions"
    IN  [ trade              |-> a.trade,
          price_impact       |-> a.price_impact,
          volume_anomaly     |-> a.volume_anomaly,
          velocity_score     |-> a.velocity_score,
          market_impact      |-> a.market_impact,
          recommended_action |-> recommended_action ]

\* grid_trading.rs, should_pause_grid_for_whale: scores in thousandths
should_pause_grid_for_whale(s, whale_impact, price_impact, velocity_score) ==
    CASE whale_impact = "critical" -> TRUE
      [] whale_impact = "high" -> velocity_score > 700 \/ price_impact > 8000
      [] OTHER -> FALSE

\* the label should_pause_grid_for_whale matches for a MarketImpact
whale_impact_label(impact) ==
    CASE impact = "Critical" -> "critical"
      [] impact = "High" -> "high"
      [] impact = "Medium" -> "medium"
      [] OTHER -> "low"

\* the recommendations of analyze_whale_impact_for_grid that pause the grid
pause_recommendations ==
    { "PAUSE_GRID - Whale activity causing significant price movement",
      "PAUSE_GRID - Rapid whale trades detected" }

\* ---------------------------------------------------------- whale actions
KnownWallet == "5Q544fKrFoe6tsEbD7S8EmxGTJYAKtTVhAW5Q5pge4j1"

OtherWallet == "7xKXtg2CW87d97TXJSDpbD5jBkheTqA83TZRuJosgAsU"

WhaleChains == { "solana", "eth", "bsc", "base" }

\* 0, the smallest step, and sizes on both sides of every threshold
WhaleSizes == { 0, 1, Usd(30000), Usd(150000), Usd(500000), Usd(700000) }

AvgVolumes == { 0, Usd(10000) }

\* the trades detect_whale_activity is called with, all made at second 1000
WhaleTrades ==
    { WhaleTrade(c, "Bonk", s, 100, 1000, w) :
        c \in WhaleChains, s \in WhaleSizes, w \in { KnownWallet, OtherWallet } }

\* earlier, simultaneous and later trades, inside and outside the window
RecentBase ==
    << WhaleTrade("solana", "Bonk", Usd(150000), 100, 699, KnownWallet),
       WhaleTrade("solana", "Bonk", Usd(150000), 100, 700, KnownWallet),
       WhaleTrade("solana", "Bonk", Usd(150000), 100, 900, KnownWallet),
       WhaleTrade("solana", "Bonk", Usd(150000), 100, 1000, KnownWallet),
       WhaleTrade("solana", "Bonk", Usd(150000), 100, 1001, KnownWallet),
       WhaleTrade("solana", "Wif", Usd(150000), 100, 1000, KnownWallet),
       WhaleTrade("solana", "Bonk", Usd(150000), 100, 699, OtherWallet),
       WhaleTrade("solana", "Bonk", Usd(150000), 100, 1000, OtherWallet) >>

RECURSIVE Chosen(_, _)
\* the trades of RecentBase from position i on whose position is in `picked`
Chosen(i, picked) ==
    IF i > Len(RecentBase) THEN << >>
    ELSE (IF i \in picked THEN << RecentBase[i] >> ELSE << >>) \o Chosen(i + 1, picked)

\* the histories detect_whale_activity is called with
Histories == { Chosen(1, picked) : picked \in SUBSET (1..Len(RecentBase)) }

\* no whale trade was analysed
WhaleFixed ==
    /\ recent_trades = << >>
    /\ whale_trade = NoTrade
    /\ avg_volume_24h = 0
    /\ activity = None
    /\ analysis = None

WhaleInit ==
    /\ recent_trades \in Histories
    /\ whale_trade = NoTrade
    /\ avg_volume_24h = 0
    /\ activity = None
    /\ analysis = None

\* the call of detect_whale_activity on the history
DetectWhale ==
    /\ activity = None
    /\ \E trade \in WhaleTrades, avg_volume \in AvgVolumes :
         /\ whale_trade' = trade
         /\ avg_volume_24h' = avg_volume
         /\ activity' = Some(detect_whale_activity(trade, recent_trades, avg_volume))
    /\ UNCHANGED << recent_trades, analysis >>
    /\ UNCHANGED otherThanWhale

\* the market prices the recommendation is asked at
CurrentPrices == { 100, 110 }

\* the call of analyze_whale_impact_for_grid on the detected activity
AnalyzeWhale ==
    /\ activity # None
    /\ analysis = None
    /\ \E current_price \in CurrentPrices :
         analysis' = Some(analyze_whale_impact_for_grid(activity[1], current_price,
                                                        << 90, 120 >>))
    /\ UNCHANGED << whale_trade, recent_trades, avg_volume_24h, activity >>
    /\ UNCHANGED otherThanWhale

\* ------------------------------------------------------------- balance.rs
max_retries == 3

fallback_rpcs ==
    << "https://api.mainnet-beta.solana.com",
       "https://solana-api.projectserum.com",
       "https://rpc.ankr.com/solana" >>

\* Result<WalletBalance, String>: the balance in lamports and in USD
BalanceResult(kind, native_balance, native_balance_usd) ==
    [ kind |-> kind, native_balance |-> native_balance,
      native_balance_usd |-> native_balance_usd ]

\* what an RPC endpoint answers: an error, or a balance in lamports
RpcAnswers == { None, Some(0), Some(500000000), Some(1500000000) }

\* what fetch_sol_price answers: an error, or a price in USD
PriceAnswers == { None, Some(150) }

\* no get_solana_balance call was made
NoBalanceCall ==
    [ calls |-> 0, pc |-> "idle", index |-> 0, tried |-> << >>, delays |-> << >>,
      lamports |-> 0, result |-> BalanceResult("none", 0, 0) ]

\* where the call stands after an attempt at fallback endpoint i, ending
\* with an error as soon as the last fallback endpoint failed
after_fallback_gives_up(i, ok) ==
    IF ok THEN [ pc |-> "price", index |-> 0 ]
    ELSE IF i < Len(fallback_rpcs) THEN [ pc |-> "fallback", index |-> i + 1 ]
    ELSE [ pc |-> "done", index |-> 0 ]

\* try_fallback_rpc_balance, and line 45-46 once every endpoint failed
after_fallback(i, ok) ==
    IF ok THEN [ pc |-> "price", index |-> 0 ]
    ELSE IF i < Len(fallback_rpcs) THEN [ pc |-> "fallback", index |-> i + 1 ]
    ELSE [ pc |-> "retry", index |-> 0 ]

\* retry_rpc_balance: after attempt number `attempt` (from 0)
after_retry(attempt, ok) ==
    IF ok THEN [ pc |-> "price", index |-> 0 ]
    ELSE IF attempt < max_retries - 1 THEN [ pc |-> "sleep", index |-> attempt ]
    ELSE [ pc |-> "done", index |-> 0 ]

\* the call with one more attempt made, standing where `next` says
attempted(b, endpoint, answer, next) ==
    [ b EXCEPT !.pc = next.pc, !.index = next.index,
               !.tried = Append(@, [ endpoint |-> endpoint, ok |-> answer # None ]),
               !.lamports = IF answer # None THEN answer[1] ELSE @,
               !.result = IF next.pc = "done"
                          THEN BalanceResult("Err: Failed to get balance after retries",
                                             0, 0)
                          ELSE @ ]

\* get_solana_balance is called; an address that does not parse ends it
\* (lines 31-32)
CallBalance ==
    /\ balance_call.pc \in { "idle", "done" }
    /\ balance_call.calls < MaxBalanceCalls
    /\ \E address_parses \in BOOLEAN :
         balance_call' =
            [ NoBalanceCall EXCEPT
                !.calls = balance_call.calls + 1,
                !.pc = IF address_parses THEN "primary" ELSE "done",
                !.result = IF address_parses THEN BalanceResult("none", 0, 0)
                           ELSE BalanceResult("Err: Invalid address", 0, 0) ]
    /\ UNCHANGED otherThanBalance

\* client.get_balance on the primary client (lines 35-42)
PrimaryAttempt ==
    /\ balance_call.pc = "primary"
    /\ \E answer \in RpcAnswers :
         balance_call' = attempted(balance_call, "primary", answer,
                                   IF answer # None
                                   THEN [ pc |-> "price", index |-> 0 ]
                                   ELSE [ pc |-> "fallback", index |-> 1 ])
    /\ UNCHANGED otherThanBalance

\* try_single_rpc_balance on the next fallback endpoint (lines 119-130)
FallbackAttempt ==
    /\ balance_call.pc = "fallback"
    /\ \E answer \in RpcAnswers :
         balance_call' = attempted(balance_call, fallback_rpcs[balance_call.index],
                                   answer,
                                   after_fallback(balance_call.index, answer # None))
    /\ UNCHANGED otherThanBalance

\* client.get_balance inside retry_rpc_balance (lines 94-106)
RetryAttempt ==
    /\ balance_call.pc = "retry"
    /\ \E answer \in RpcAnswers :
         balance_call' = attempted(balance_call, "primary", answer,
                                   after_retry(balance_call.index, answer # None))
    /\ UNCHANGED otherThanBalance

\* the sleep of 100 * 2^attempt ms before the next retry (lines 99-100)
Backoff ==
    /\ balance_call.pc = "sleep"
    /\ balance_call' = [ balance_call EXCEPT
                           !.pc = "retry", !.index = @ + 1,
                           !.delays = Append(@, 100 * 2 ^ balance_call.index) ]
    /\ UNCHANGED otherThanBalance

\* fetch_sol_price answers or fails; either way the call returns Ok
\* (lines 57-85)
PriceFetched ==
    /\ balance_call.pc = "price"
    /\ \E answer \in PriceAnswers :
         LET sol_price_usd == IF answer # None THEN answer[1] ELSE 100
         IN  balance_call' =
                [ balance_call EXCEPT
                    !.pc = "done",
                    !.result = BalanceResult("Ok", balance_call.lamports,
                                  RoundDiv((balance_call.lamports \div 1000000)
                                              * sol_price_usd, 1000)) ]
    /\ UNCHANGED otherThanBalance

BalanceNext ==
    \/ CallBalance
    \/ PrimaryAttempt
    \/ FallbackAttempt
    \/ RetryAttempt
    \/ Backoff
    \/ PriceFetched

\* ------------------------------------------------------------- bundler.rs
\* gas in units of 1e-7 of the chain's coin; percentages in hundredths
BundledTransaction(user_id, chain) ==
    [ user_id |-> user_id, chain |-> chain, transactions |-> << >>,
      status |-> "Pending", executed |-> FALSE, gas_saved |-> 0,
      total_gas_cost |-> 0 ]

NoBundle == [ BundledTransaction(0, "") EXCEPT !.status = "None" ]

create_bundle(user_id, chain) == BundledTransaction(user_id, chain)

\* what a bundler call returned: Ok or Err with its String, and for
\* get_bundle_status the response, or the panic of the arithmetic check
BundleCall(op, kind, text, request, status_response) ==
    [ op |-> op, kind |-> kind, text |-> text, request |-> request,
      response |-> status_response ]

NoBundleCall == BundleCall("none", "none", "", None, None)

\* the status test that lets every bundle take transactions
accepting_any_status(status) == TRUE

\* add_transaction_to_bundle: the match on bundle.status (lines 101-104)
accepting(status) == status \in { "Pending", "Bundling" }

\* add_transaction_to_bundle: Err(message), or None when the request passes
add_validation(b, request) ==
    IF b.user_id # request.user_id THEN Some("User ID mismatch")
    ELSE IF b.chain # request.chain THEN Some("Chain mismatch")
    ELSE IF ~ accepting(b.status)
    THEN Some("Bundle is no longer accepting transactions")
    ELSE None

PendingTransaction(tx_id, request) ==
    [ tx_id |-> tx_id, tx_type |-> request.tx_type, token |-> request.token,
      amount |-> request.amount, slippage |-> request.slippage,
      priority |-> IF request.priority = None THEN 5 ELSE request.priority[1] ]

add_transaction_to_bundle(b, request, tx_id) ==
    IF add_validation(b, request) # None THEN b
    ELSE [ b EXCEPT !.transactions = Append(b.transactions,
                                            PendingTransaction(tx_id, request)),
                    !.status = "Bundling" ]

\* the per-chain gas of one transaction (lines 136-141, 151-156, 197-202)
base_gas(chain) ==
    CASE chain = "solana" -> 50
      [] chain \in { "eth", "ethereum" } -> 10000
      [] chain \in { "bsc", "binance" } -> 1000
      [] OTHER -> 10000

\* usize subtraction in a build without overflow checks: it wraps
wrapping_sub(a, b) == (a - b) % (usize_max + 1)

\* usize subtraction in a build with overflow checks panics below zero
sub_panics(a, b) == a - b < 0

\* estimate_bundle_gas_cost, where the subtraction does not panic
estimate_bundle_gas_cost(chain, transaction_count) ==
    LET per_tx_gas == RoundDiv(base_gas(chain) * 3, 10)
    IN  base_gas(chain) + per_tx_gas * wrapping_sub(transaction_count, 1)

calculate_gas_savings(individual_gas, bundled_gas, transaction_count) ==
    Max(individual_gas * transaction_count - bundled_gas, 0)

BundleStatusResponse(b, gas_saved, savings_percent) ==
    [ status |-> b.status, transaction_count |-> Len(b.transactions),
      gas_saved |-> gas_saved, estimated_savings_percent |-> savings_percent,
      transactions |-> b.transactions ]

get_bundle_status(b) ==
    LET individual_gas == base_gas(b.chain)
        n == Len(b.transactions)
        bundled_gas == estimate_bundle_gas_cost(b.chain, n)
        gas_saved == calculate_gas_savings(individual_gas, bundled_gas, n)
        savings_percent == IF n > 0
                           THEN RoundDiv(gas_saved * 10000, individual_gas * n)
                           ELSE 0
    IN  BundleStatusResponse(b, gas_saved, savings_percent)

\* execute_bundle: no await inside, Executing is replaced before it returns
execute_bundle(b) ==
    IF b.transactions = << >> THEN b
    ELSE LET n == Len(b.transactions)
             bundled_gas == estimate_bundle_gas_cost(b.chain, n)
         IN  [ b EXCEPT !.gas_saved = calculate_gas_savings(base_gas(b.chain),
                                                            bundled_gas, n),
                        !.total_gas_cost = bundled_gas,
                        !.executed = TRUE,
                        !.status = "Completed" ]

\* ---------------------------------------------------------- bundle actions
BundleUsers == { 1, 2 }

BundleChains == { "solana", "eth" }

AddToBundleRequests ==
    [ user_id : BundleUsers, chain : BundleChains, tx_type : { "buy" },
      token : { "Bonk" }, amount : { "1.5" }, slippage : { 1 },
      priority : { None, Some(9) } ]

CreateBundle ==
    /\ bundle = NoBundle
    /\ \E user_id \in BundleUsers, chain \in BundleChains :
         bundle' = create_bundle(user_id, chain)
    /\ bundle_call' = BundleCall("create", "Ok", "", None, None)
    /\ UNCHANGED otherThanBundle

AddTransaction ==
    /\ bundle # NoBundle
    /\ Len(bundle.transactions) < MaxBundled
    /\ \E request \in AddToBundleRequests :
         LET tx_id == Len(bundle.transactions) + 1
             err == add_validation(bundle, request)
         IN  /\ bundle' = add_transaction_to_bundle(bundle, request, tx_id)
             /\ bundle_call' = IF err = None
                                THEN BundleCall("add", "Ok", "tx", Some(request), None)
                                ELSE BundleCall("add", "Err", err[1], Some(request),
                                                None)
    /\ UNCHANGED otherThanBundle

ExecuteBundle ==
    /\ bundle # NoBundle
    /\ bundle' = execute_bundle(bundle)
    /\ bundle_call' = IF bundle.transactions = << >>
                       THEN BundleCall("execute", "Err", "Bundle has no transactions",
                                       None, None)
                       ELSE BundleCall("execute", "Ok", "bundle_tx", None, None)
    /\ UNCHANGED otherThanBundle

\* get_bundle_status in a build with and in one without overflow checks
GetBundleStatus ==
    /\ bundle # NoBundle
    /\ \E overflow_checks \in BOOLEAN :
         bundle_call' =
            IF overflow_checks /\ sub_panics(Len(bundle.transactions), 1)
            THEN BundleCall("status", "panic", "attempt to subtract with overflow",
                            None, None)
            ELSE BundleCall("status", "Ok", "", None,
                            Some(get_bundle_status(bundle)))
    /\ UNCHANGED bundle
    /\ UNCHANGED otherThanBundle

\* ------------------------------------------------------------------ specs
\* the parts of the state only one specification moves, at rest
BalanceFixed == balance_call = NoBalanceCall

BundleFixed == bundle = NoBundle /\ bundle_call = NoBundleCall

AuxFixed == LockFixed /\ BalanceFixed /\ BundleFixed

TickNext == CreateGrid \/ LoneTick

TickStart == GridInit /\ RiskFixed /\ TradeFixed /\ WhaleFixed /\ AuxFixed

TickSpec == TickStart /\ [][TickNext]_vars

GridNext ==
    \/ CreateGrid
    \/ PriceTick
    \/ PauseGrid
    \/ ResumeGrid
    \/ StopGrid
    \/ AdjustGrid
    \/ OptimizeGrid

GridStart == GridInit /\ RiskFixed /\ TradeFixed /\ WhaleFixed /\ AuxFixed

GridSpec == GridStart /\ [][GridNext]_vars

\* a strategy just created from one of the larger requests
OptimizeStart ==
    /\ strategy \in { create_grid_strategy(request, 1) : request \in OptimizeRequests }
    /\ create_result = "Ok"
    /\ new_orders = << >>
    /\ tick_from = ""
    /\ actions = << >>
    /\ next_id = strategy.grid_count + 1
    /\ adjustments = 0
    /\ RiskFixed
    /\ TradeFixed
    /\ WhaleFixed
    /\ AuxFixed

OptimizeNext == Reoptimize \/ PriceTick

OptimizeSpec == OptimizeStart /\ [][OptimizeNext]_vars

WhaleStart == GridInit /\ RiskFixed /\ TradeFixed /\ WhaleInit /\ AuxFixed

WhaleNext == DetectWhale \/ AnalyzeWhale

WhaleSpec == WhaleStart /\ [][WhaleNext]_vars

PositionStart == GridInit /\ PositionInit /\ TradeFixed /\ WhaleFixed /\ AuxFixed

PositionNext == GetPositions

PositionSpec == PositionStart /\ [][PositionNext]_vars

SellNext == LoneSell

SellSpec == PositionStart /\ [][SellNext]_vars

LockStart == GridInit /\ RiskInit /\ TradeFixed /\ WhaleFixed /\ AuxFixed

LockNext == StartCheck \/ ProfileReturns \/ StartRecord \/ AcquireStats \/ CountReturns

LockSpec == LockStart /\ [][LockNext]_vars

BundleStart == GridInit /\ RiskFixed /\ TradeFixed /\ WhaleFixed /\ AuxFixed

BundleNext == CreateBundle \/ AddTransaction \/ ExecuteBundle \/ GetBundleStatus

BundleSpec == BundleStart /\ [][BundleNext]_vars

BalanceStart == GridInit /\ RiskFixed /\ TradeFixed /\ WhaleFixed /\ AuxFixed

\* every await of the call returns: the RPC clients time out, the sleep ends
BalanceSpec == BalanceStart /\ [][BalanceNext]_vars /\ WF_vars(BalanceNext)

RiskNext == CheckTradeRisk \/ RecordTradeResult \/ AdvanceDay

TradeNext == BuyRiskCheck \/ BuyExecute \/ ExecuteSell

TradeStart == GridInit /\ TradeInit /\ TradeFixed /\ WhaleFixed /\ AuxFixed

TradeSpec == TradeStart /\ [][TradeNext]_vars

RiskStart == GridInit /\ RiskInit /\ TradeFixed /\ WhaleFixed /\ AuxFixed

RiskSpec == RiskStart /\ [][RiskNext]_vars

\* ----------------------------------------------------------------- claims
\* C1: after any sequence of ticks from a valid create, every order in
\* active_orders has lower_price <= price <= upper_price.
C1_ActiveOrdersInRange ==
    [][ LoneTick =>
          \A i \in 1..Len(strategy'.active_orders) :
              /\ strategy'.lower_price <= strategy'.active_orders[i].price
              /\ strategy'.active_orders[i].price <= strategy'.upper_price ]_vars

\* orders of a sequence, by id
HasOrder(orders, id) == \E i \in 1..Len(orders) : orders[i].order_id = id

OrderOf(orders, id) ==
    orders[CHOOSE i \in 1..Len(orders) : orders[i].order_id = id]

\* C2: no false fills. An order that a step moves to completed_orders is a
\* Buy filled at a price <= its own or a Sell filled at a price >= its own,
\* and it was Pending or Active (or placed by that same tick); an order of
\* active_orders that is Cancelled or Filled stays where it is.
C2_NoFalseFills ==
    [][ /\ \A k \in 1..Len(strategy'.completed_orders) :
              k > Len(strategy.completed_orders) =>
                 LET o == strategy'.completed_orders[k]
                     p == strategy'.last_price
                 IN  /\ o.filled_price = Some(p)
                     /\ o.order_type = "Buy" => p <= o.price
                     /\ o.order_type = "Sell" => p >= o.price
                     /\ IF HasOrder(strategy.active_orders, o.order_id)
                        THEN OrderOf(strategy.active_orders, o.order_id).status
                                \in { "Pending", "Active" }
                        ELSE o.order_id >= next_id
        /\ \A i \in 1..Len(strategy.active_orders) :
              strategy.active_orders[i].status \in { "Cancelled", "Filled" } =>
                 /\ HasOrder(strategy'.active_orders,
                             strategy.active_orders[i].order_id)
                 /\ ~ HasOrder(strategy'.completed_orders,
                               strategy.active_orders[i].order_id) ]_vars

\* C2 witness: the last tick filled orders and placed new ones while a
\* Cancelled Buy priced at or above the tick's price stayed unfilled.
C2_Witness ==
    /\ new_orders # << >>
    /\ \E i \in 1..Len(strategy.active_orders) :
          /\ strategy.active_orders[i].status = "Cancelled"
          /\ strategy.active_orders[i].order_type = "Buy"
          /\ strategy.last_price <= strategy.active_orders[i].price

\* C3: total_trades equals the number of completed orders.
C3_TradesCountCompleted ==
    strategy.total_trades = Len(strategy.completed_orders)

\* C3 witness: an adjusted, stopped grid that completed buys and a sell.
C3_Witness ==
    /\ adjustments > 0
    /\ strategy.status = "Stopped"
    /\ strategy.total_trades >= 3
    /\ \E i \in 1..Len(strategy.completed_orders) :
          strategy.completed_orders[i].order_type = "Sell"

\* ------------------------------------------------- facts a check decides on
StoredProfile(u) ==
    IF risk_profiles[u] = None THEN DefaultProfile ELSE risk_profiles[u][1]

TodaysLoss(u) ==
    IF daily_stats[u] # None /\ daily_stats[u][1].date = today
    THEN daily_stats[u][1].total_loss_usd
    ELSE 0

StoredLoss(m, u) == IF m[u] = None THEN 0 ELSE m[u][1].total_loss_usd

IsCheckStep == call'.op = "check_trade_risk"

IsRecordStep == call'.op = "record_trade_result"

ProfileLoaded(r) == ~ (r.kind = "DatabaseError" /\ r.s = "profile")

Counted(r) == ~ (r.kind = "DatabaseError" /\ r.s = "count")

KillOn(u) == StoredProfile(u).kill_switch_enabled

Blacklisted(u, token) ==
    StoredProfile(u).blacklist_enabled /\ token \in global_blacklist

TooLarge(u, amount_usd) == amount_usd > StoredProfile(u).max_trade_size_usd

LossReached(u) == TodaysLoss(u) >= StoredProfile(u).max_daily_loss_usd

TooManyPositions(u) ==
    Cardinality({ i \in 1..Len(positions) : positions[i].user_id = u })
        >= StoredProfile(u).max_open_positions

\* C4: check_trade_risk reports the first failing check in the order kill
\* switch, blacklist, trade size, daily loss, open positions; a later
\* violated limit is never reported while an earlier one is violated, and
\* an enabled kill switch pre-empts every other limit error.
C4_FirstFailingCheck ==
    [][ IsCheckStep /\ ProfileLoaded(call'.result) =>
          LET u == call'.user_id
              kind == call'.result.kind
              k == KillOn(u)
              b == Blacklisted(u, call'.token)
              z == TooLarge(u, call'.amount_usd)
              l == LossReached(u)
              n == TooManyPositions(u)
          IN  /\ k => kind = "KillSwitchActive"
              /\ ~ k /\ b => kind = "TokenBlacklisted"
              /\ ~ k /\ ~ b /\ z => kind = "MaxTradeSizeExceeded"
              /\ ~ k /\ ~ b /\ ~ z /\ l => kind = "MaxDailyLossExceeded"
              /\ ~ k /\ ~ b /\ ~ z /\ ~ l /\ Counted(call'.result) /\ n
                    => kind = "MaxOpenPositionsExceeded"
              /\ ~ k /\ ~ b /\ ~ z /\ ~ l /\ Counted(call'.result) /\ ~ n
                    => kind = "Ok" ]_vars

\* C4 witness: a check with the kill switch on, a blacklisted token, an
\* oversized amount and too many positions at once reported KillSwitchActive.
C4_Witness ==
    /\ call.op = "check_trade_risk"
    /\ call.result.kind = "KillSwitchActive"
    /\ call.token \in global_blacklist
    /\ call.amount_usd > StoredProfile(call.user_id).max_trade_size_usd
    /\ TooManyPositions(call.user_id)

\* C5: once the losses recorded today reach max_daily_loss_usd, every later
\* check today (kill switch off, token not blacklisted, size within limit)
\* fails with MaxDailyLossExceeded(losses recorded today, max); below the
\* limit the daily-loss check passes.
C5_DailyLossEnforced ==
    [][ ( /\ IsCheckStep
          /\ ProfileLoaded(call'.result)
          /\ ~ KillOn(call'.user_id)
          /\ ~ Blacklisted(call'.user_id, call'.token)
          /\ ~ TooLarge(call'.user_id, call'.amount_usd) )
        => LET u == call'.user_id
               max == StoredProfile(u).max_daily_loss_usd
           IN  IF recorded_today[u] >= max
               THEN call'.result =
                      RiskError("MaxDailyLossExceeded", recorded_today[u], max, "")
               ELSE call'.result.kind # "MaxDailyLossExceeded" ]_vars

\* C6: for any user, with or without a DailyStats entry, a negative pnl_usd
\* raises that user's total_loss_usd by exactly |pnl_usd|; a non-negative
\* pnl_usd leaves the risk state unchanged.
C6_RecordAddsLoss ==
    [][ IsRecordStep =>
          LET u == call'.user_id
          IN  IF call'.pnl_usd < 0
              THEN /\ daily_stats'[u] # None
                   /\ StoredLoss(daily_stats', u)
                        = StoredLoss(daily_stats, u) + Abs(call'.pnl_usd)
              ELSE /\ daily_stats' = daily_stats
                   /\ global_blacklist' = global_blacklist
                   /\ dev_blacklist' = dev_blacklist ]_vars

C9_LossMonotoneWithinDay ==
    [][ today' = today =>
          \A u \in Users :
             daily_stats[u] # None /\ written_on[u] = today =>
                /\ daily_stats'[u] # None
                /\ StoredLoss(daily_stats', u) >= StoredLoss(daily_stats, u)
                /\ StoredLoss(daily_stats', u) # StoredLoss(daily_stats, u)
                      => IsRecordStep ]_vars

\* C7: every sell that executed its swap makes exactly one
\* record_trade_result call for the position's user.
C7_OneRecordPerClose ==
    [][ sells_ok' = sells_ok + 1 =>
          /\ records' = records + 1
          /\ call'.op = "record_trade_result" ]_vars

OpenPositions(u) ==
    Cardinality({ i \in 1..Len(positions) :
                    positions[i].user_id = u /\ positions[i].status = "OPEN" })

\* C10: a check that reaches the open-positions check fails with
\* MaxOpenPositionsExceeded exactly when the user's positions that are open
\* number max_open_positions or more; a closed position does not count.
C10_CountsOnlyOpen ==
    [][ ( /\ IsCheckStep
          /\ ProfileLoaded(call'.result)
          /\ Counted(call'.result)
          /\ ~ KillOn(call'.user_id)
          /\ ~ Blacklisted(call'.user_id, call'.token)
          /\ ~ TooLarge(call'.user_id, call'.amount_usd)
          /\ ~ LossReached(call'.user_id) )
        => ( call'.result.kind = "MaxOpenPositionsExceeded"
               <=> OpenPositions(call'.user_id)
                      >= StoredProfile(call'.user_id).max_open_positions ) ]_vars

\* C11: the risk check and the position insert of one buy are separate
\* steps. A passing check saw fewer than max_open_positions rows, and a row
\* is inserted later by a request already past its check, without a new
\* check; so two requests can both pass before either row exists and the
\* user ends with more than max_open_positions open positions.
C11_CheckThenAct ==
    [][ /\ ( IsCheckStep /\ call'.result = NoError )
             => /\ ~ TooManyPositions(call'.user_id)
                /\ positions' = positions
        /\ Len(positions') > Len(positions)
             => /\ Len(pending_buys') < Len(pending_buys)
                /\ ~ IsCheckStep ]_vars

\* C11 witness: two real (not simulated) buys were both executed and the
\* user, limited to one open position, holds two.
C11_Witness ==
    /\ risk_profiles[1] # None
    /\ OpenPositions(1) > StoredProfile(1).max_open_positions
    /\ Len(transactions) = Len(positions)
    /\ \A i \in 1..Len(transactions) : transactions[i].type = "BUY"

\* the Buy orders of active_orders that a tick at price p must fill
EligibleBuys(p) ==
    { i \in 1..Len(strategy.active_orders) :
        /\ strategy.active_orders[i].order_type = "Buy"
        /\ strategy.active_orders[i].status \in { "Pending", "Active" }
        /\ strategy.active_orders[i].price >= p }

\* C12: an in-range tick at price p fills every Pending or Active Buy priced
\* at or above p (filled_price = p, removed from active_orders, appended to
\* completed_orders), and for each fill it places a Pending Sell of the same
\* amount at fill price + grid_spacing exactly when that is <= upper_price.
C12_BuyFillsAndSells ==
    [][ ( LoneTick /\ in_range(strategy, strategy'.last_price) ) =>
          LET q == strategy'.last_price
              fills == EligibleBuys(q)
              sells == { k \in 1..Len(new_orders') :
                           new_orders'[k].order_type = "Sell" }
          IN  /\ \A i \in fills :
                    LET id == strategy.active_orders[i].order_id
                    IN  /\ ~ HasOrder(strategy'.active_orders, id)
                        /\ HasOrder(strategy'.completed_orders, id)
                        /\ OrderOf(strategy'.completed_orders, id).status = "Filled"
                        /\ OrderOf(strategy'.completed_orders, id).filled_price
                              = Some(q)
              /\ Cardinality(sells) =
                    IF q + strategy.grid_spacing <= strategy.upper_price
                    THEN Cardinality(fills) ELSE 0
              /\ \A k \in sells :
                    /\ new_orders'[k].price = q + strategy.grid_spacing
                    /\ new_orders'[k].status = "Pending"
                    /\ \E i \in fills :
                          new_orders'[k].amount = strategy.active_orders[i].amount ]_vars

\* index of the last Buy among the first k - 1 completed orders whose price
\* is lower than `price`; 0 when there is none
LastLowerBuy(completed, k, price) ==
    LET found == { j \in 1..(k - 1) :
                     /\ completed[j].order_type = "Buy"
                     /\ completed[j].price < price }
    IN  IF found = { } THEN 0 ELSE CHOOSE j \in found : \A i \in found : i <= j

\* amount * (sell - buy) summed over the Sells completed at indices from..to
RECURSIVE ProfitAgainstLast(_, _, _)
ProfitAgainstLast(completed, from, to) ==
    IF from > to THEN 0
    ELSE LET o == completed[to]
             j == LastLowerBuy(completed, to, o.price)
         IN  ProfitAgainstLast(completed, from, to - 1)
               + ( IF o.order_type = "Sell" /\ j # 0
                   THEN o.amount * (o.price - completed[j].price) ELSE 0 )

\* C13: a Sell that fills takes its profit from the most recently filled Buy
\* of completed_orders with a lower price: (sell - buy) / buy * 100 is stored
\* on the order and amount * (sell - buy) is added to total_profit.
C13_ProfitAgainstLatestBuy ==
    [][ LoneTick =>
          LET done == strategy'.completed_orders
              n0 == Len(strategy.completed_orders)
          IN  /\ \A k \in (n0 + 1)..Len(done) :
                    done[k].order_type = "Sell" =>
                       LET j == LastLowerBuy(done, k, done[k].price)
                       IN  done[k].profit =
                             IF j = 0 THEN None
                             ELSE Some(profit_percent(done[k].price, done[j].price))
              /\ strategy'.total_profit =
                    strategy.total_profit + ProfitAgainstLast(done, n0 + 1, Len(done)) ]_vars

\* the orders of `type` that a tick at price p fills, in array order
FilledInArrayOrder(type, p) ==
    SelectSeq(strategy.active_orders, LAMBDA o : Fillable(o, type, p))

\* type and price of the orders placed for a sequence of fills, in its order
PlacedFor(fills) ==
    LET spawning ==
          SelectSeq(fills,
                    LAMBDA o : IF o.order_type = "Buy"
                               THEN o.price + strategy.grid_spacing <= strategy.upper_price
                               ELSE o.price - strategy.grid_spacing >= strategy.lower_price)
    IN  [ k \in 1..Len(spawning) |->
            IF spawning[k].order_type = "Buy"
            THEN << "Sell", spawning[k].price + strategy.grid_spacing >>
            ELSE << "Buy", spawning[k].price - strategy.grid_spacing >> ]

\* C14: within one tick the Buy fills come before the Sell fills and fills
\* of one type are made in active_orders array order (earliest-created
\* first); completed_orders and the returned new orders grow in that order.
C14_FillsInArrayOrder ==
    [][ ( LoneTick /\ in_range(strategy, strategy'.last_price) ) =>
          LET q == strategy'.last_price
              fills == FilledInArrayOrder("Buy", q) \o FilledInArrayOrder("Sell", q)
              n0 == Len(strategy.completed_orders)
              done == SubSeq(strategy'.completed_orders, n0 + 1,
                             Len(strategy'.completed_orders))
          IN  /\ [ k \in 1..Len(done) |-> done[k].order_id ]
                    = [ k \in 1..Len(fills) |-> fills[k].order_id ]
              /\ [ k \in 1..Len(new_orders') |->
                      << new_orders'[k].order_type, new_orders'[k].price >> ]
                    = PlacedFor(fills) ]_vars

\* a step that applies a tick, whichever bound it runs under
IsTick == tick_from' # ""

\* C15: a tick below lower_price or above upper_price records the price as
\* last_price, pauses the strategy only if it was Active, returns no new
\* orders and changes nothing else of the strategy.
C15_OutOfRangeTick ==
    [][ ( /\ IsTick
          /\ \/ strategy'.last_price < strategy.lower_price
             \/ strategy'.last_price > strategy.upper_price )
        => /\ strategy' =
                [ strategy EXCEPT
                    !.last_price = strategy'.last_price,
                    !.status = IF @ = "Active" THEN "Paused" ELSE @ ]
           /\ new_orders' = << >> ]_vars

\* C15 witness: an Active strategy with completed and open orders was paused
\* by a tick above upper_price.
C15_Witness ==
    /\ tick_from = "Active"
    /\ strategy.status = "Paused"
    /\ strategy.last_price > strategy.upper_price
    /\ strategy.completed_orders # << >>
    /\ \E i \in 1..Len(strategy.active_orders) :
          /\ strategy.active_orders[i].order_type = "Sell"
          /\ strategy.active_orders[i].status = "Pending"

\* C16: an in-range tick on a Paused strategy leaves it Active and evaluates
\* the fills (every Pending or Active Buy at or above the price is completed);
\* an in-range tick never changes a Stopped or a Completed status.
C16_InRangeTickStatus ==
    [][ ( /\ IsTick
          /\ strategy'.last_price >= strategy.lower_price
          /\ strategy'.last_price <= strategy.upper_price )
        => /\ strategy.status = "Paused" =>
                /\ strategy'.status = "Active"
                /\ \A i \in EligibleBuys(strategy'.last_price) :
                      HasOrder(strategy'.completed_orders,
                               strategy.active_orders[i].order_id)
           /\ strategy.status = "Stopped" => strategy'.status = "Stopped"
           /\ update_grid_with_price([ strategy EXCEPT !.status = "Completed" ],
                                     strategy'.last_price, next_id).s.status
                = "Completed" ]_vars

\* C16 witness: a tick found the strategy Paused, reactivated it and filled
\* orders.
C16_Witness ==
    /\ tick_from = "Paused"
    /\ strategy.status = "Active"
    /\ new_orders # << >>

\* C17: stop_grid is terminal. Once the status is Stopped it is Stopped in
\* every later state, whatever ticks, pause_grid, resume_grid and whale
\* adjustments follow; and stop_grid leaves no Pending or Active order.
C17_StopIsTerminal ==
    [][ /\ strategy.status = "Stopped" => strategy'.status = "Stopped"
        /\ ( strategy'.status = "Stopped" /\ strategy.status # "Stopped" )
             => \A i \in 1..Len(strategy'.active_orders) :
                   strategy'.active_orders[i].status \notin { "Pending", "Active" } ]_vars

\* the inputs that create_grid_strategy must reject
Invalid(lower_price, upper_price, grid_count, investment_amount) ==
    \/ lower_price >= upper_price
    \/ grid_count < 2
    \/ investment_amount <= 0

\* C18: create_grid_strategy fails with a validation error and produces no
\* strategy exactly when lower_price >= upper_price, grid_count < 2 or
\* investment_amount <= 0; for every other input it succeeds.
C18_CreateValidation ==
    [][ CreateGrid =>
          /\ \A request \in Requests :
                create_validation(request) # "Ok"
                  <=> Invalid(request.lower_price, request.upper_price,
                              request.grid_count, request.investment_amount)
          /\ IF create_result' = "Ok"
             THEN /\ strategy'.status = "Active"
                  /\ ~ Invalid(strategy'.lower_price, strategy'.upper_price,
                               strategy'.grid_count, strategy'.investment_amount)
             ELSE /\ strategy' = NoStrategy
                  /\ create_result' \in
                        { "Lower price must be less than upper price",
                          "Grid count must be at least 2",
                          "Investment amount must be positive" } ]_vars

\* C18 witness: a request with a valid range and grid count but no
\* investment was rejected and no strategy exists.
C18_Witness ==
    /\ create_result = "Investment amount must be positive"
    /\ strategy = NoStrategy

\* what C19 says of a new strategy apart from the place of its last level
SeededLevels(s) ==
    /\ s.status = "Active"
    /\ s.last_price = RoundDiv(s.lower_price + s.upper_price, 2)
    /\ s.total_profit = 0
    /\ s.total_trades = 0
    /\ s.completed_orders = << >>
    /\ Len(s.active_orders) = s.grid_count
    /\ \A i \in 1..s.grid_count :
          /\ s.active_orders[i].order_type = "Buy"
          /\ s.active_orders[i].status = "Pending"
          /\ s.active_orders[i].filled_price = None
          /\ s.active_orders[i].amount = RoundDiv(s.investment_amount, s.grid_count)
          /\ s.active_orders[i].price = s.lower_price + (i - 1) * s.grid_spacing
    /\ s.active_orders[1].price = s.lower_price

\* C19 (as claimed): a valid create yields an Active strategy with last_price
\* at the midpoint, no profit or trades and grid_count Pending Buys of amount
\* investment / grid_count at lower + i * grid_spacing, the first at lower
\* and the last at upper: grid_spacing * (grid_count - 1) = upper - lower.
C19_SeedsLevelsToUpper ==
    [][ ( CreateGrid /\ create_result' = "Ok" ) =>
          /\ SeededLevels(strategy')
          /\ strategy'.active_orders[strategy'.grid_count].price
                = strategy'.upper_price
          /\ strategy'.grid_spacing * (strategy'.grid_count - 1)
                = strategy'.upper_price - strategy'.lower_price ]_vars

\* C19 (amended): the same, with the last level at upper up to the rounding
\* of grid_spacing: grid_spacing * (grid_count - 1) differs from
\* upper - lower by at most half a quantum per interval.
C19_SeedsLevelsRounded ==
    [][ ( CreateGrid /\ create_result' = "Ok" ) =>
          /\ SeededLevels(strategy')
          /\ 2 * Abs(strategy'.grid_spacing * (strategy'.grid_count - 1)
                       - (strategy'.upper_price - strategy'.lower_price))
                <= strategy'.grid_count - 1 ]_vars

\* C19 witness: a strategy just created whose spacing was rounded, so that
\* its last level is not at upper_price.
C19_Witness ==
    /\ create_result = "Ok"
    /\ SeededLevels(strategy)
    /\ strategy.active_orders[strategy.grid_count].price # strategy.upper_price

\* C20: grid_spacing > 0 in every state reachable from a valid create by
\* ticks, whale adjustments and volatility optimizations with any inputs.
C20_SpacingPositive ==
    strategy.status # "None" => strategy.grid_spacing > 0

\* C21: a "critical" adjustment pauses an Active strategy and reports it; on
\* any other status it changes nothing and reports nothing; spacing, bounds
\* and orders are untouched either way. A "low" adjustment changes nothing
\* and reports nothing.
C21_CriticalAndLow ==
    strategy.status # "None" =>
       \A price_impact \in PriceImpacts, current_price \in AdjustPrices :
          /\ adjust_grid_for_whale_activity(strategy, "critical", price_impact,
                                            current_price)
                = IF strategy.status = "Active"
                  THEN [ s |-> [ strategy EXCEPT !.status = "Paused" ],
                         actions |-> << "Grid paused due to critical whale activity" >> ]
                  ELSE [ s |-> strategy, actions |-> << >> ]
          /\ adjust_grid_for_whale_activity(strategy, "low", price_impact,
                                            current_price)
                = [ s |-> strategy, actions |-> << >> ]

\* C21 witness: a strategy with completed and open orders was paused by a
\* "critical" adjustment.
C21_Witness ==
    /\ actions = << "Grid paused due to critical whale activity" >>
    /\ strategy.status = "Paused"
    /\ strategy.completed_orders # << >>
    /\ strategy.active_orders # << >>

\* a move of the price by more than 5% of last_price
MovedOverFivePercent(current_price, last_price) ==
    IF last_price = 0 THEN current_price # 0
    ELSE Abs(current_price - last_price) * 100 > 5 * Abs(last_price)

\* 10% of the width of the range
TenthOfWidth(s) == RoundDiv(RoundDiv((s.upper_price - s.lower_price) * 2, 10), 2)

CancelOldestPending(orders, k) ==
    [ i \in 1..Len(orders) |->
        IF /\ orders[i].status = "Pending"
           /\ Cardinality({ j \in 1..(i - 1) : orders[j].status = "Pending" }) < k
        THEN [ orders[i] EXCEPT !.status = "Cancelled" ]
        ELSE orders[i] ]

PendingCount(orders) ==
    Cardinality({ i \in 1..Len(orders) : orders[i].status = "Pending" })

\* C23: with avg_volatility > 0.10 and whale_activity_level > 0.7 a call of
\* optimize_grid_for_volatility cancels the oldest 25% (rounded down) of the
\* orders that are Pending at the call; otherwise it cancels nothing; orders
\* that are not Pending are never changed.
C23_CancelsOldestPending ==
    \A avg_volatility \in Volatilities, whale_activity_level \in ActivityLevels :
       optimize_grid_for_volatility(strategy, avg_volatility,
                                    whale_activity_level).active_orders
         = IF avg_volatility > 10 /\ whale_activity_level > 70
           THEN CancelOldestPending(strategy.active_orders,
                                    PendingCount(strategy.active_orders) \div 4)
           ELSE strategy.active_orders

\* the trades of the history made by the wallet of the analysed trade
SameWallet ==
    { i \in 1..Len(recent_trades) :
         recent_trades[i].wallet_address = whale_trade.wallet_address }

InWindow ==
    { i \in SameWallet :
         /\ recent_trades[i].token = whale_trade.token
         /\ whale_trade.timestamp - time_window <= recent_trades[i].timestamp
         /\ recent_trades[i].timestamp <= whale_trade.timestamp }

\* C25: velocity_score = min(n / 3, 1.0) where n counts exactly the trades of
\* the history by the same wallet in the same token with
\* trade.timestamp - 300 <= t <= trade.timestamp.
C25_VelocityWindow ==
    activity # None =>
       activity[1].velocity_score = Min(RoundDiv(Cardinality(InWindow) * 1000, 3), 1000)

\* the earlier trades of the same wallet in the same token
EarlierTrades ==
    { i \in SameWallet :
         /\ recent_trades[i].token = whale_trade.token
         /\ recent_trades[i].timestamp < whale_trade.timestamp }

\* C26: confidence_score lies in [0, 100] and equals min(100, 70 + 20 if the
\* wallet has a known label + 5 if it is a first entry + 5 if size_usd >
\* 500,000), a first entry being one with no earlier trade of the same wallet
\* in the same token in recent_trades.
C26_ConfidenceScore ==
    activity # None =>
       LET a == activity[1]
           label == IF whale_trade.wallet_address = KnownWallet THEN 20 ELSE 0
           first == IF EarlierTrades = { } THEN 5 ELSE 0
           large == IF whale_trade.size_usd > Usd(500000) THEN 5 ELSE 0
       IN  /\ a.confidence_score >= 0
           /\ a.confidence_score <= 100
           /\ a.confidence_score = Min(100, 70 + label + first + large)
           /\ a.is_first_entry <=> EarlierTrades = { }
           /\ (a.known_label # None) <=> whale_trade.wallet_address = KnownWallet

\* a known wallet's trade of exactly 500,000 USD scored 95: it is a first
\* entry although the wallet traded the token in the same second and later
C26_Witness ==
    /\ activity # None
    /\ whale_trade.wallet_address = KnownWallet
    /\ whale_trade.size_usd = Usd(500000)
    /\ EarlierTrades = { }
    /\ \E i \in SameWallet : /\ recent_trades[i].token = whale_trade.token
                             /\ recent_trades[i].timestamp = whale_trade.timestamp
    /\ activity[1].confidence_score = 95

Evaluated ==
    { i \in 1..Len(positions) :
         /\ positions[i].user_id = response.user_id
         /\ positions[i].status = "OPEN" }

\* the position of a status has reached a threshold
ReachedThreshold(status) ==
    \/ status.pnl_percent >= status.position.take_profit_percent
    \/ status.pnl_percent <= status.position.stop_loss_percent

\* C28: position evaluation emits a close signal (should_close with a reason)
\* for every open position whose pnl_pct is >= take_profit_percent or <=
\* stop_loss_percent and none for a position strictly between the two; it
\* executes no trade itself.
C28_CloseSignals ==
    (response.handler = "get_positions" /\ response.success) =>
       /\ Len(response.statuses) = Cardinality(Evaluated)
       /\ \A i \in 1..Len(response.statuses) :
             LET status == response.statuses[i]
             IN  /\ status.should_close <=> ReachedThreshold(status)
                 /\ status.should_close => status.reason # None
       /\ transactions = << >>
       /\ sells_ok = 0

\* the step is an execute_sell call for a position that is CLOSED
SellOfClosed ==
    /\ response'.handler = "execute_sell"
    /\ response'.position_id \in 1..Len(positions)
    /\ positions[response'.position_id].status = "CLOSED"
    /\ sells_ok' # sells_ok \/ response' # response

\* C29: a position closed by a 100% sell is terminal: every later sell request
\* for it is rejected, executes no swap and records no further transaction.
C29_ClosedIsTerminal ==
    [][ SellOfClosed => /\ ~ response'.success
                        /\ sells_ok' = sells_ok
                        /\ transactions' = transactions ]_vars

\* C30: the total a check_trade_risk call compares against
\* max_daily_loss_usd is the sum of the losses record_trade_result was given
\* earlier on the same calendar day: every loss of the day is included, no
\* loss of an earlier day is, and the first check of a day sees zero plus
\* that day's losses.  (A check that reaches the comparison leaves the
\* total it compared in the user's entry.)
C30_LossesOfTheDayCounted ==
    [][ ( /\ IsCheckStep
          /\ ProfileLoaded(call'.result)
          /\ ~ KillOn(call'.user_id)
          /\ ~ Blacklisted(call'.user_id, call'.token)
          /\ ~ TooLarge(call'.user_id, call'.amount_usd) )
        => LET u == call'.user_id
           IN  /\ daily_stats'[u] # None
               /\ daily_stats'[u][1].date = today
               /\ daily_stats'[u][1].total_loss_usd = recorded_today[u] ]_vars

\* C31: check_trade_risk never suspends on a collaborator call while it
\* holds a shared-state lock: the open-positions count query, like every DB
\* call, runs only before the daily_stats write lock is acquired or after it
\* is released.
C31_NoSuspensionInLock ==
    \A t \in TaskIds : tasks[t].pc \in { "profile", "count" } => stats_lock # t

\* the endpoints get_solana_balance tries, in the order it tries them
AttemptOrder ==
    << "primary" >> \o fallback_rpcs \o [ i \in 1..max_retries |-> "primary" ]

\* the call made its attempts in order and stopped at the first one that
\* succeeded, sleeping 100 ms * 2^attempt between the retries
AttemptsInOrder ==
    LET tried == balance_call.tried
        delays == balance_call.delays
    IN  /\ Len(tried) <= Len(AttemptOrder)
        /\ \A i \in 1..Len(tried) :
              /\ tried[i].endpoint = AttemptOrder[i]
              /\ tried[i].ok => i = Len(tried)
        /\ Len(delays) <= max_retries
        /\ \A attempt \in 0..(Len(delays) - 1) : delays[attempt + 1] = 100 * 2 ^ attempt
        /\ Len(delays) <= Max(0, Len(tried) - 1 - Len(fallback_rpcs))

\* a finished call returned Ok if an attempt succeeded, and Err only if every
\* attempt failed
ResultFollowsAttempts ==
    LET tried == balance_call.tried
    IN  balance_call.pc = "done" =>
          /\ balance_call.result.kind # "none"
          /\ balance_call.result.kind = "Ok"
               <=> (tried # << >> /\ tried[Len(tried)].ok)
          /\ balance_call.result.kind = "Err: Failed to get balance after retries"
               <=> (Len(tried) = Len(AttemptOrder) /\ \A i \in 1..Len(tried) : ~ tried[i].ok)
          /\ balance_call.result.kind = "Err: Invalid address" <=> tried = << >>

\* C32: get_solana_balance always terminates with Ok or a terminal Err after
\* a bounded number of attempts: one primary attempt, then at most three
\* fallback endpoints in order, then at most 3 primary retries with backoff
\* delays of 100 ms * 2^attempt; it returns Ok at the first successful
\* attempt and Err only when every attempt failed.
C32_BalanceTerminates ==
    /\ [](AttemptsInOrder /\ ResultFollowsAttempts)
    /\ (balance_call.pc # "idle") ~> (balance_call.pc = "done")

\* a call returned Err after the primary attempt, the three fallback
\* endpoints and three retries with two sleeps all failed
C32_Witness ==
    /\ balance_call.pc = "done"
    /\ balance_call.result.kind = "Err: Failed to get balance after retries"
    /\ Len(balance_call.tried) = 7
    /\ balance_call.delays = << 100, 200 >>

\* the step is a buy request that check_trade_risk rejected
BuyRejected ==
    /\ IsCheckStep
    /\ call'.result # NoError
    /\ response'.handler = "execute_buy"

\* C33: a non-simulation buy request rejected by check_trade_risk returns a
\* failure response carrying the risk error's human-readable reason; no swap
\* is executed and no transaction or position record is created for it.
C33_RejectedBuy ==
    [][ BuyRejected =>
          /\ ~ response'.success
          /\ response'.position_id = 0
          /\ Len(response'.error) > 1
          /\ response'.error[1] = "Risk Control: "
          /\ SubSeq(response'.error, 2, Len(response'.error)) = Display(call'.result)
          /\ call'.result.kind = "MaxOpenPositionsExceeded"
                => response'.error = << "Risk Control: ", "Max open positions reached (",
                                        call'.result.a, "/", call'.result.b, ")" >>
          /\ positions' = positions
          /\ transactions' = transactions
          /\ pending_buys' = pending_buys
          /\ sells_ok' = sells_ok ]_vars

\* a buy was rejected because the user already holds max_open_positions
\* positions, and the response says so
C33_Witness ==
    /\ response.handler = "execute_buy"
    /\ ~ response.success
    /\ call.op = "check_trade_risk"
    /\ call.result.kind = "MaxOpenPositionsExceeded"
    /\ response.error = risk_control_error(call.result)
    /\ Len(positions) = 1
    /\ Len(transactions) = 1

\* a tick at current_price on strategy s fills no order and spawns none
TickFillsNothing(s, current_price) ==
    LET r == update_grid_with_price(s, current_price, next_id)
    IN  /\ r.new_orders = << >>
        /\ r.s.completed_orders = s.completed_orders
        /\ r.s.active_orders = s.active_orders
        /\ r.s.total_trades = s.total_trades

\* C34: while a strategy is Paused because of pause_grid or a critical whale
\* impact, price ticks fill no order and spawn no order until resume_grid is
\* called (here: the tick that follows the pause directly).
C34_PausedTicksFillNothing ==
    strategy.status # "None" =>
       \A current_price \in TickPrices :
          LET by_call == pause_grid(strategy)
              by_whale == adjust_grid_for_whale_activity(strategy, "critical", 60,
                                                         strategy.last_price).s
          IN  /\ TickFillsNothing(by_call, current_price)
              /\ by_whale.status = "Paused" => TickFillsNothing(by_whale, current_price)

\* a strategy without an order that could still fill
Halted(s) ==
    /\ s.status # "None"
    /\ \A i \in 1..Len(s.active_orders) :
          s.active_orders[i].status \notin { "Pending", "Active" }

\* C35: after stop_grid no later price tick fills any order or creates any
\* new order: completed_orders, total_trades, total_profit and the orders in
\* active_orders stay unchanged in every later state (stop_grid leaves no
\* order that could fill, and no step brings one back or changes the others).
C35_NoFillAfterStop ==
    [][ /\ strategy'.status = "Stopped" => Halted(strategy')
        /\ (strategy.status = "Stopped" \/ Halted(strategy))
             => /\ Halted(strategy')
                /\ new_orders' = << >>
                /\ strategy'.completed_orders = strategy.completed_orders
                /\ strategy'.total_trades = strategy.total_trades
                /\ strategy'.total_profit = strategy.total_profit
                /\ strategy'.active_orders = strategy.active_orders ]_vars

\* a strategy with completed orders was stopped and then received an in-range
\* tick at a price at which a cancelled Sell would have filled
C35_Witness ==
    /\ tick_from = "Stopped"
    /\ strategy.completed_orders # << >>
    /\ strategy.last_price >= strategy.lower_price
    /\ strategy.last_price <= strategy.upper_price
    /\ \E i \in 1..Len(strategy.active_orders) :
          /\ strategy.active_orders[i].order_type = "Sell"
          /\ strategy.active_orders[i].status = "Cancelled"
          /\ strategy.active_orders[i].price <= strategy.last_price

\* C36: no order spawned during a tick is filled within that same tick: a
\* Sell spawned by a Buy fill and a Buy spawned by a Sell fill are both still
\* Pending in active_orders when the tick returns.
C36_SpawnedStayPending ==
    [][ IsTick =>
          \A k \in 1..Len(new_orders') :
             /\ ~ HasOrder(strategy'.completed_orders, new_orders'[k].order_id)
             /\ \E i \in 1..Len(strategy'.active_orders) :
                   /\ strategy'.active_orders[i].order_id = new_orders'[k].order_id
                   /\ strategy'.active_orders[i].status = "Pending" ]_vars

\* C37: under any sequence of price ticks with grid_spacing unchanged since
\* creation, active_orders never holds two Pending orders of the same type at
\* the same price level.
C37_OnePendingPerLevel ==
    \A i, j \in 1..Len(strategy.active_orders) :
       ( /\ i # j
         /\ strategy.active_orders[i].status = "Pending"
         /\ strategy.active_orders[j].status = "Pending"
         /\ strategy.active_orders[i].order_type = strategy.active_orders[j].order_type )
       => strategy.active_orders[i].price # strategy.active_orders[j].price

\* ticks have filled orders of both types and left a spawned Buy and a
\* spawned Sell pending
C37_Witness ==
    /\ tick_from = "Active"
    /\ Len(strategy.completed_orders) >= 3
    /\ \E i, j \in 1..Len(strategy.active_orders) :
          /\ strategy.active_orders[i].order_type = "Buy"
          /\ strategy.active_orders[j].order_type = "Sell"
          /\ strategy.active_orders[i].status = "Pending"
          /\ strategy.active_orders[j].status = "Pending"
          /\ strategy.active_orders[i].order_id > strategy.grid_count
          /\ strategy.active_orders[j].order_id > strategy.grid_count

\* C38: whenever should_pause_grid_for_whale returns true for an activity
\* (critical impact, or high impact with velocity > 0.7 or price impact > 8.0),
\* analyze_whale_impact_for_grid recommends PAUSE_GRID for that same activity.
C38_PauseAgreement ==
    ( /\ analysis # None
      /\ should_pause_grid_for_whale(strategy,
                                     whale_impact_label(activity[1].market_impact),
                                     activity[1].price_impact,
                                     activity[1].velocity_score) )
    => analysis[1].recommended_action \in pause_recommendations

\* C39: a bundle accepts a transaction only when the request's user and
\* chain match the bundle and its status is Pending or Bundling; on success the
\* transaction is appended and the status becomes Bundling; on every rejection
\* the bundle is unchanged; once the status is Completed no transaction is ever
\* added; execute_bundle on an empty bundle returns an error and leaves the
\* bundle unchanged.
C39_BundleAccepts ==
    [][ /\ bundle_call'.op = "add" =>
             LET request == bundle_call'.request[1]
                 n == Len(bundle.transactions)
             IN  /\ bundle_call'.kind \in { "Ok", "Err" }
                 /\ bundle_call'.kind = "Ok" =>
                       /\ request.user_id = bundle.user_id
                       /\ request.chain = bundle.chain
                       /\ bundle.status \in { "Pending", "Bundling" }
                       /\ Len(bundle'.transactions) = n + 1
                       /\ SubSeq(bundle'.transactions, 1, n) = bundle.transactions
                       /\ bundle'.transactions[n + 1].token = request.token
                       /\ bundle'.transactions[n + 1].amount = request.amount
                       /\ bundle'.status = "Bundling"
                 /\ bundle_call'.kind = "Err" => bundle' = bundle
        /\ bundle.status = "Completed" =>
             bundle'.transactions = bundle.transactions
        /\ (bundle_call'.op = "execute" /\ bundle.transactions = << >>) =>
             /\ bundle_call'.kind = "Err"
             /\ bundle' = bundle ]_vars

\* an executed bundle with room left has turned a matching request down
C39_Witness ==
    /\ bundle.status = "Completed"
    /\ bundle.transactions # << >>
    /\ bundle_call.op = "add"
    /\ bundle_call.kind = "Err"
    /\ bundle_call.request[1].user_id = bundle.user_id
    /\ bundle_call.request[1].chain = bundle.chain

\* C40: get_bundle_status on a bundle with zero transactions returns
\* transaction_count 0, gas_saved 0 and estimated_savings_percent 0, without
\* unsigned underflow in the (transaction_count - 1) term of
\* estimate_bundle_gas_cost.
C40_EmptyBundleStatus ==
    (bundle_call.op = "status" /\ bundle.transactions = << >>) =>
       /\ bundle_call.kind = "Ok"
       /\ bundle_call.response[1].transaction_count = 0
       /\ bundle_call.response[1].gas_saved = 0
       /\ bundle_call.response[1].estimated_savings_percent = 0
       /\ ~ sub_panics(Len(bundle.transactions), 1)

====
